---- MODULE Spec2Model ----
(***************************************************************************)
(* A model of the ai-student-intelligence pipeline: the tabular store      *)
(* (storage/google_sheets.py), the validator, the analytics and insight    *)
(* stages, the narrative generator, the per-student consolidator and the   *)
(* pipeline runner.                                                        *)
(*                                                                         *)
(* A worksheet is [exists, values]: values is what get_all_values()        *)
(* returns, a sequence of rows of text cells, the first being the header.  *)
(* A DataFrame is [columns, rows]; its cells are given as the text the     *)
(* sheet stores for them.                                                  *)
(***************************************************************************)
EXTENDS Integers, Sequences, FiniteSets, TLC

VARIABLES
    sheet,   \* one worksheet, for the specifications of the store alone
    store,   \* the spreadsheet of the pipeline: table name -> worksheet
    pc,      \* position of the running operation
    op,      \* the operation in progress or last completed, with its outcome
    prev     \* content of the table(s) when the operation started

vars == <<sheet, store, pc, op, prev>>

(***************************************************************************)
(* Sequence helpers                                                        *)
(***************************************************************************)
Range(s) == {s[i] : i \in 1..Len(s)}

RECURSIVE SeqsUpTo(_, _)
SeqsUpTo(S, n) ==
    IF n = 0 THEN {<<>>}
    ELSE LET shorter == SeqsUpTo(S, n - 1)
         IN  shorter \cup {Append(q, x) : q \in {r \in shorter : Len(r) = n - 1}, x \in S}

\* position of the first occurrence of name in cols (0 when missing)
ColIndex(cols, name) ==
    IF name \in Range(cols)
    THEN CHOOSE i \in 1..Len(cols) : cols[i] = name /\ \A j \in 1..(i - 1) : cols[j] # name
    ELSE 0

(***************************************************************************)
(* DataFrames                                                              *)
(***************************************************************************)
EmptyDF == [columns |-> <<>>, rows |-> <<>>]

\* DataFrame.empty: some axis has length 0
DFEmpty(df) == Len(df.columns) = 0 \/ Len(df.rows) = 0

Cell(df, row, name) == row[ColIndex(df.columns, name)]

\* df[key_columns].apply(tuple, axis=1) for one row
KeyTuple(df, row, key_columns) ==
    [i \in 1..Len(key_columns) |-> Cell(df, row, key_columns[i])]

KeyTuples(df, key_columns) ==
    {KeyTuple(df, df.rows[i], key_columns) : i \in 1..Len(df.rows)}

\* pd.concat([a, b], ignore_index=True) followed by _sanitize_df: the columns
\* of a, then the columns of b that a lacks; a cell a row has no value for is
\* NaN, which the sanitizer turns into "".
ConcatColumns(a, b) ==
    a.columns \o SelectSeq(b.columns, LAMBDA c : c \notin Range(a.columns))

Realign(df, cols, row) ==
    [i \in 1..Len(cols) |->
        IF cols[i] \in Range(df.columns) THEN Cell(df, row, cols[i]) ELSE ""]

Concat(a, b) ==
    LET cols == ConcatColumns(a, b)
    IN  [columns |-> cols,
         rows |-> [i \in 1..Len(a.rows) |-> Realign(a, cols, a.rows[i])]
                  \o [i \in 1..Len(b.rows) |-> Realign(b, cols, b.rows[i])]]

(***************************************************************************)
(* storage/google_sheets.py                                                *)
(***************************************************************************)
AbsentSheet == [exists |-> FALSE, values |-> <<>>]
ClearedSheet == [exists |-> TRUE, values |-> <<>>]

\* spreadsheet.worksheet(name) raises WorksheetNotFound
ReadRaises(ws) == ~ws.exists

\* read_table, when the worksheet exists
ReadTable(ws) ==
    IF Len(ws.values) < 2
    THEN EmptyDF
    ELSE [columns |-> ws.values[1], rows |-> Tail(ws.values)]

\* the rows worksheet.update() is given: header first
FrameValues(df) == <<df.columns>> \o df.rows

\* worksheet.clear(), or add_worksheet() when the table is missing
ClearStep(ws) == ClearedSheet

\* worksheet.update([header] + rows); a frame without columns writes no cell
UpdateStep(ws, df) ==
    [exists |-> TRUE,
     values |-> IF Len(df.columns) = 0 THEN <<>> ELSE FrameValues(df)]

\* write_table: clear (or create), then update
WriteTable(ws, df) == UpdateStep(ClearStep(ws), df)

\* append_table: values read (a missing table is created, values = [])
AppendRewrites(ws, df) ==
    Len(ws.values) = 0 \/ ws.values[1] # df.columns

AppendRowsStep(ws, df) == [exists |-> TRUE, values |-> ws.values \o df.rows]

AppendTable(ws, df) ==
    IF DFEmpty(df) THEN ws
    ELSE IF AppendRewrites(ws, df)
         THEN UpdateStep(ClearStep(ws), df)
         ELSE AppendRowsStep(ws, df)

\* upsert_table: existing = read_table, or an empty frame when reading raises
UpsertExisting(ws) == IF ReadRaises(ws) THEN EmptyDF ELSE ReadTable(ws)

\* existing[key_columns] / df[key_columns] raise KeyError on a missing column
UpsertRaises(ws, df, key_columns) ==
    /\ ~DFEmpty(UpsertExisting(ws))
    /\ \E i \in 1..Len(key_columns) :
          \/ key_columns[i] \notin Range(UpsertExisting(ws).columns)
          \/ key_columns[i] \notin Range(df.columns)

\* upsert_table without the mask: every existing row is kept
UpsertFinal_KeepsAll(ws, df, key_columns) ==
    IF DFEmpty(UpsertExisting(ws)) THEN df ELSE Concat(UpsertExisting(ws), df)

\* upsert_table concatenating the other way round: incoming rows first
UpsertFinal_IncomingFirst(ws, df, key_columns) ==
    IF DFEmpty(UpsertExisting(ws)) THEN df
    ELSE Concat(df, [columns |-> UpsertExisting(ws).columns,
                     rows |-> SelectSeq(UpsertExisting(ws).rows,
                         LAMBDA r : KeyTuple(UpsertExisting(ws), r, key_columns)
                                        \notin KeyTuples(df, key_columns))])

\* upsert_table forgetting the existing rows
UpsertFinal_OnlyIncoming(ws, df, key_columns) == df

\* the frame upsert_table hands to write_table
UpsertFinal(ws, df, key_columns) ==
    LET existing == UpsertExisting(ws)
    IN  IF DFEmpty(existing) THEN df
        ELSE LET incoming == KeyTuples(df, key_columns)
                 cleaned == [columns |-> existing.columns,
                             rows |-> SelectSeq(existing.rows,
                                 LAMBDA r : KeyTuple(existing, r, key_columns) \notin incoming)]
             IN  Concat(cleaned, df)

UpsertTable(ws, df, key_columns) ==
    IF UpsertRaises(ws, df, key_columns) THEN ws
    ELSE WriteTable(ws, UpsertFinal(ws, df, key_columns))

(***************************************************************************)
(* Text and numbers.  A raw sheet holds text.  pd.to_numeric reads a       *)
(* number out of a text cell; numbers are kept in hundredths (12.5 is      *)
(* 1250).  A numeric cell of a derived table is given as that integer,     *)
(* standing for the decimal text the sheet shows for it.                   *)
(***************************************************************************)
NumText ==
    ("0" :> 0) @@ ("0.5" :> 50) @@ ("1" :> 100) @@ ("1.0" :> 100) @@ ("2" :> 200)
    @@ ("3" :> 300) @@ ("5" :> 500) @@ ("6" :> 600) @@ ("12" :> 1200)
    @@ ("12.5" :> 1250) @@ ("13" :> 1300) @@ ("-5" :> -500) @@ ("40" :> 4000)
    @@ ("50" :> 5000) @@ ("55" :> 5500) @@ ("64" :> 6400) @@ ("70" :> 7000)
    @@ ("76" :> 7600) @@ ("90" :> 9000) @@ ("100" :> 10000) @@ ("101" :> 10100)

\* pd.to_numeric(..., errors="coerce") gives NaN
IsNaN(text) == text \notin DOMAIN NumText
ToNumeric(text) == NumText[text]

\* int(x) of a float: truncation toward zero; the result is a whole number
IntOf(n) == IF n >= 0 THEN n \div 100 ELSE -((-n) \div 100)

\* str.strip() is empty
Blank(text) == text \in {"", " "}

\* pd.to_datetime(..., errors="coerce"): the day a text names (naive, so UTC)
DateText ==
    ("2024-01-10" :> 10) @@ ("2024-02-10" :> 41)
    @@ ("2024-03-10" :> 70) @@ ("2999-01-01" :> 356000)

IsNaT(text) == text \notin DOMAIN DateText
ToDatetime(text) == DateText[text]

\* strftime("%Y-%m-%d")
DateFormat(day) ==
    CASE day = 10 -> "2024-01-10"
      [] day = 41 -> "2024-02-10"
      [] day = 70 -> "2024-03-10"
      [] OTHER -> "2999-01-01"

\* pd.Timestamp.now(tz=utc), as a day
NowDay == 1000

\* the order of Python strings on the identifiers used
StrRank ==
    ("" :> 0) @@ (" " :> 1) @@ ("E1" :> 2) @@ ("E2" :> 3) @@ ("Math" :> 4)
    @@ ("S001" :> 5) @@ ("S002" :> 6) @@ ("Science" :> 7)

\* the order of the decimal texts of the grades a validated sheet can hold
\* ("12" < "12.5" < "5"): the first character decides, then the length
GradeTextRank(n) ==
    IF n \div 100 >= 10
    THEN (n \div 100) * 2 + (IF n % 100 = 0 THEN 0 ELSE 1)
    ELSE 100 + (n \div 100) * 2 + (IF n % 100 = 0 THEN 0 ELSE 1)

\* lexicographic order of two tuples of integers of one length
LexLess(a, b) ==
    \E i \in 1..Len(a) : a[i] < b[i] /\ \A j \in 1..(i - 1) : a[j] = b[j]

\* a stable sort of seq by the integer tuples keys[i]: an element goes after
\* the elements with a smaller key and after the earlier ones with its key
StableSort(seq, keys) ==
    LET n == Len(seq)
        pos(i) == 1 + Cardinality({j \in 1..n :
                        \/ LexLess(keys[j], keys[i])
                        \/ (j < i /\ keys[j] = keys[i])})
    IN  [p \in 1..n |-> seq[CHOOSE i \in 1..n : pos(i) = p]]

(***************************************************************************)
(* analytics/validators.py                                                 *)
(***************************************************************************)
REQUIRED_COLUMNS ==
    <<"student_id", "grade", "subject", "exam_id", "exam_type",
      "attempt_number", "score", "max_score", "exam_date">>

ALLOWED_EXAM_TYPES == {"mock", "real"}

\* validate_schema raises
SchemaRaises(df) == Range(df.columns) # Range(REQUIRED_COLUMNS)

\* a row of the frame as a record, whatever the order of the columns
RowRecord(df, row) ==
    [c \in Range(REQUIRED_COLUMNS) |-> Cell(df, row, c)]

\* validate_rows, one row (text cells; coerce_types is applied where the
\* code reads the coerced column): the error it records, or "ok"
RowError(r) ==
    IF Blank(r["student_id"]) THEN "student_id missing or invalid"
    ELSE IF IsNaN(r["grade"])
            \/ ~(1 <= IntOf(ToNumeric(r["grade"])) /\ IntOf(ToNumeric(r["grade"])) <= 12)
         THEN "grade out of range (1-12)"
    ELSE IF Blank(r["subject"]) THEN "invalid subject"
    ELSE IF r["exam_type"] \notin ALLOWED_EXAM_TYPES THEN "invalid exam_type"
    ELSE IF IsNaN(r["attempt_number"]) \/ IntOf(ToNumeric(r["attempt_number"])) < 1
         THEN "attempt_number < 1"
    ELSE IF IsNaN(r["max_score"]) \/ ToNumeric(r["max_score"]) <= 0
         THEN "max_score must be > 0"
    ELSE IF IsNaN(r["score"]) \/ ToNumeric(r["score"]) < 0
            \/ ToNumeric(r["score"]) > ToNumeric(r["max_score"])
         THEN "score outside valid range"
    ELSE IF IsNaT(r["exam_date"]) THEN "exam_date is invalid or missing"
    ELSE IF ToDatetime(r["exam_date"]) > NowDay THEN "exam_date is in the future"
    ELSE "ok"

\* validate_rows: the errors, in row order
ValidateRows(df) ==
    LET all == [i \in 1..Len(df.rows) |->
                   [row_index |-> i - 1,
                    student_id |-> Cell(df, df.rows[i], "student_id"),
                    error |-> RowError(RowRecord(df, df.rows[i]))]]
    IN  SelectSeq(all, LAMBDA e : e.error # "ok")

\* coerce_types and the final normalization, one row that passed validate_rows
CoerceRow(r) ==
    [student_id |-> r["student_id"],
     grade |-> ToNumeric(r["grade"]),
     subject |-> r["subject"],
     exam_id |-> r["exam_id"],
     exam_type |-> r["exam_type"],
     attempt_number |-> ToNumeric(r["attempt_number"]),
     score |-> ToNumeric(r["score"]),
     max_score |-> ToNumeric(r["max_score"]),
     exam_date |-> DateFormat(ToDatetime(r["exam_date"]))]

Triple(c) == <<c.student_id, c.exam_id, c.attempt_number>>

\* validate_uniqueness raises
UniquenessRaises(coerced) ==
    \E i, j \in 1..Len(coerced) : i # j /\ Triple(coerced[i]) = Triple(coerced[j])

\* sort_values(by=[student_id, exam_id, attempt_number]): the sort key
TripleKey(c) == <<StrRank[c.student_id], StrRank[c.exam_id], c.attempt_number>>

\* run_validation without sort_values: the rows stay in raw order
SortValidated_RawOrder(coerced) == coerced

SortValidated(coerced) ==
    StableSort(coerced, [i \in 1..Len(coerced) |-> TripleKey(coerced[i])])

\* the frame keeps the column order of the raw sheet
ValidatedFrame(df, coerced) ==
    [columns |-> df.columns,
     rows |-> [i \in 1..Len(coerced) |->
                  [j \in 1..Len(df.columns) |-> coerced[i][df.columns[j]]]]]

\* run_validation on the raw worksheet: "ok" and the frame written, or the
\* error raised (nothing is written then)
RunValidation(raw) ==
    LET df == ReadTable(raw)
        coerced == [i \in 1..Len(df.rows) |-> CoerceRow(RowRecord(df, df.rows[i]))]
    IN  IF ReadRaises(raw) THEN [status |-> "WorksheetNotFound", df |-> EmptyDF]
        ELSE IF DFEmpty(df) THEN [status |-> "RuntimeError", df |-> EmptyDF]
        ELSE IF SchemaRaises(df) THEN [status |-> "SchemaError", df |-> EmptyDF]
        ELSE IF ValidateRows(df) # <<>> THEN [status |-> "RowValidationError", df |-> EmptyDF]
        ELSE IF UniquenessRaises(coerced) THEN [status |-> "UniquenessError", df |-> EmptyDF]
        ELSE [status |-> "ok",
              df |-> ValidatedFrame(df, SortValidated(coerced))]

(***************************************************************************)
(* The store alone: one worksheet, written, appended to and upserted into  *)
(* with arbitrary small frames.  A call is one step (the whole function);  *)
(* an upsert may then be repeated with the same arguments.                 *)
(***************************************************************************)
MaxRows == 2        \* rows of an incoming frame
MaxTableRows == 3   \* data rows the worksheet may hold

GenRows == {<<"a", "x">>, <<"a", "y">>, <<"b", "x">>}
GenKeys == {<<"k">>, <<"k", "v">>}
GenFrames ==
    {[columns |-> <<"k", "v">>, rows |-> r] : r \in SeqsUpTo(GenRows, MaxRows)}
        \cup {[columns |-> <<"k", "w">>, rows |-> <<r>>] : r \in GenRows}

Fits(ws) == Len(ws.values) <= MaxTableRows + 1

NoOp == [kind |-> "none", df |-> EmptyDF, keys |-> <<>>, raised |-> FALSE]

InitStore ==
    /\ sheet \in {AbsentSheet, ClearedSheet}
    /\ store = <<>>
    /\ pc = "idle"
    /\ op = NoOp
    /\ prev = sheet

StoreWrite(df) ==
    /\ pc = "idle"
    /\ sheet' = WriteTable(sheet, df)
    /\ Fits(sheet')
    /\ op' = [kind |-> "write", df |-> df, keys |-> <<>>, raised |-> FALSE]
    /\ pc' = "done"
    /\ prev' = sheet
    /\ UNCHANGED store

StoreAppend(df) ==
    /\ pc = "idle"
    /\ sheet' = AppendTable(sheet, df)
    /\ Fits(sheet')
    /\ op' = [kind |-> "append", df |-> df, keys |-> <<>>, raised |-> FALSE]
    /\ pc' = "done"
    /\ prev' = sheet
    /\ UNCHANGED store

StoreUpsert(df, key_columns) ==
    /\ pc = "idle"
    /\ sheet' = UpsertTable(sheet, df, key_columns)
    /\ Fits(sheet')
    /\ op' = [kind |-> "upsert", df |-> df, keys |-> key_columns,
              raised |-> UpsertRaises(sheet, df, key_columns)]
    /\ pc' = "done"
    /\ prev' = sheet
    /\ UNCHANGED store

\* read_table: the worksheet lookup raises on a missing table; otherwise the
\* frame read is returned
StoreRead ==
    /\ pc = "idle"
    /\ op' = [kind |-> "read",
              df |-> IF ReadRaises(sheet) THEN EmptyDF ELSE ReadTable(sheet),
              keys |-> <<>>,
              raised |-> ReadRaises(sheet)]
    /\ pc' = "done"
    /\ prev' = sheet
    /\ UNCHANGED <<sheet, store>>

\* the caller upserts the same rows with the same key columns once more
StoreUpsertAgain ==
    /\ pc = "done"
    /\ op.kind = "upsert"
    /\ sheet' = UpsertTable(sheet, op.df, op.keys)
    /\ Fits(sheet')
    /\ op' = [op EXCEPT !.raised = UpsertRaises(sheet, op.df, op.keys)]
    /\ pc' = "repeated"
    /\ prev' = sheet
    /\ UNCHANGED store

StoreReturn ==
    /\ pc \in {"done", "repeated"}
    /\ pc' = "idle"
    /\ op' = NoOp
    /\ prev' = sheet
    /\ UNCHANGED <<sheet, store>>

NextStore ==
    \/ \E df \in GenFrames : StoreWrite(df)
    \/ \E df \in GenFrames : StoreAppend(df)
    \/ \E df \in GenFrames, k \in GenKeys : StoreUpsert(df, k)
    \/ StoreRead
    \/ StoreUpsertAgain
    \/ StoreReturn

SpecStore == InitStore /\ [][NextStore]_vars

\* every key-tuple of the table's data rows occurs in exactly one row
OneRowPerKey(ws, key_columns) ==
    LET t == ReadTable(ws)
    IN  \A i, j \in 1..Len(t.rows) :
            KeyTuple(t, t.rows[i], key_columns) = KeyTuple(t, t.rows[j], key_columns)
                => i = j

\* C2: when an upsert is repeated with the same rows and key columns, the
\* table is identical to the table after the first call, and it holds exactly
\* one row for every key-tuple present in it.
C2_UpsertIdempotentOneRowPerKey ==
    (pc = "repeated" /\ ~op.raised) =>
        /\ sheet = prev
        /\ OneRowPerKey(sheet, op.keys)

\* positions of the old data rows whose key-tuple no incoming row has
KeptPositions(old, df, key_columns) ==
    {i \in 1..Len(old.rows) :
        \A j \in 1..Len(df.rows) :
            KeyTuple(old, old.rows[i], key_columns) # KeyTuple(df, df.rows[j], key_columns)}

\* the n-th smallest member of a set of positions
NthOf(S, n) == CHOOSE i \in S : Cardinality({j \in S : j < i}) = n - 1

\* row (a sheet row) shows the cells of src (a row of frame df) under header
AgreesWith(header, row, df, src) ==
    /\ Len(row) = Len(header)
    /\ \A c \in 1..Len(df.columns) :
          ColIndex(header, df.columns[c]) # 0
              /\ row[ColIndex(header, df.columns[c])] = src[c]

\* C11: on a non-empty table an upsert keeps, unchanged and in their order,
\* the existing rows whose key-tuple no incoming row has, drops the existing
\* rows whose key-tuple an incoming row has, and puts the incoming rows after
\* the kept ones; on an empty table the result is header + incoming rows.
C11_UpsertKeepsDropsAppends ==
    (pc = "done" /\ op.kind = "upsert" /\ ~op.raised) =>
        LET old == UpsertExisting(prev)
            kept == KeptPositions(old, op.df, op.keys)
            n == Cardinality(kept)
        IN  IF DFEmpty(old)
            THEN sheet.values = <<op.df.columns>> \o op.df.rows
            ELSE /\ Len(sheet.values) = 1 + n + Len(op.df.rows)
                 /\ \A i \in 1..n :
                       AgreesWith(sheet.values[1], sheet.values[1 + i],
                                  old, old.rows[NthOf(kept, i)])
                 /\ \A j \in 1..Len(op.df.rows) :
                       AgreesWith(sheet.values[1], sheet.values[1 + n + j],
                                  op.df, op.df.rows[j])

\* an upsert that kept one existing row, dropped another and added two
C11_Witness ==
    /\ pc = "done" /\ op.kind = "upsert" /\ ~op.raised
    /\ Len(UpsertExisting(prev).rows) = 2
    /\ Cardinality(KeptPositions(UpsertExisting(prev), op.df, op.keys)) = 1
    /\ Len(op.df.rows) = 2
    /\ Len(sheet.values) = 4

\* C12: read returns an empty result, and no error, when the table does not
\* exist, has no rows or has only a header row; otherwise the first stored
\* row is the header and the remaining rows are the data.
C12_ReadEmptyOrHeaderAndData ==
    (pc = "done" /\ op.kind = "read") =>
        /\ ~op.raised
        /\ op.df = IF ~sheet.exists \/ Len(sheet.values) < 2
                   THEN EmptyDF
                   ELSE [columns |-> sheet.values[1], rows |-> Tail(sheet.values)]

(***************************************************************************)
(* The store's writers step by step: every call to the Sheets API          *)
(* (clear / add_worksheet, update, append_rows) is a step of its own, and  *)
(* the call about to be made may fail (network error, quota, the process   *)
(* being stopped), which ends the writer where it stands.                  *)
(***************************************************************************)
NoWrite == [kind |-> "none", df |-> EmptyDF, target |-> <<>>]

InitWrite ==
    /\ sheet \in {AbsentSheet, ClearedSheet}
    /\ store = <<>>
    /\ pc = "idle"
    /\ op = NoWrite
    /\ prev = sheet

\* write_table(df): nothing is read; the first call is clear / add_worksheet
BeginWrite(df) ==
    /\ pc = "idle"
    /\ Fits(WriteTable(sheet, df))
    /\ op' = [kind |-> "write", df |-> df, target |-> WriteTable(sheet, df).values]
    /\ pc' = "clear"
    /\ prev' = sheet
    /\ UNCHANGED <<sheet, store>>

\* upsert_table(df, key_columns): existing is read, final_df computed, and
\* write_table(final_df) entered
BeginUpsert(df, key_columns) ==
    /\ pc = "idle"
    /\ ~UpsertRaises(sheet, df, key_columns)
    /\ Fits(UpsertTable(sheet, df, key_columns))
    /\ op' = [kind |-> "upsert", df |-> UpsertFinal(sheet, df, key_columns),
              target |-> UpsertTable(sheet, df, key_columns).values]
    /\ pc' = "clear"
    /\ prev' = sheet
    /\ UNCHANGED <<sheet, store>>

\* append_table(df): the values are read and the branch is chosen
BeginAppend(df) ==
    /\ pc = "idle"
    /\ ~DFEmpty(df)
    /\ Fits(AppendTable(sheet, df))
    /\ op' = [kind |-> "append", df |-> df, target |-> AppendTable(sheet, df).values]
    /\ pc' = IF AppendRewrites(sheet, df) THEN "clear" ELSE "append_rows"
    /\ prev' = sheet
    /\ UNCHANGED <<sheet, store>>

DoClear ==
    /\ pc = "clear"
    /\ sheet' = ClearStep(sheet)
    /\ pc' = "update"
    /\ UNCHANGED <<store, op, prev>>

DoUpdate ==
    /\ pc = "update"
    /\ sheet' = UpdateStep(sheet, op.df)
    /\ pc' = "written"
    /\ UNCHANGED <<store, op, prev>>

DoAppendRows ==
    /\ pc = "append_rows"
    /\ sheet' = AppendRowsStep(sheet, op.df)
    /\ pc' = "written"
    /\ UNCHANGED <<store, op, prev>>

\* the API call about to be made raises, or the process is stopped
WriteFails ==
    /\ pc \in {"clear", "update", "append_rows"}
    /\ pc' = "failed"
    /\ UNCHANGED <<sheet, store, op, prev>>

WriteReturn ==
    /\ pc \in {"written", "failed"}
    /\ pc' = "idle"
    /\ op' = NoWrite
    /\ prev' = sheet
    /\ UNCHANGED <<sheet, store>>

NextWrite ==
    \/ \E df \in GenFrames : BeginWrite(df)
    \/ \E df \in GenFrames, k \in GenKeys : BeginUpsert(df, k)
    \/ \E df \in GenFrames : BeginAppend(df)
    \/ DoClear
    \/ DoUpdate
    \/ DoAppendRows
    \/ WriteFails
    \/ WriteReturn

SpecWrite == InitWrite /\ [][NextWrite]_vars

\* C9: a write that fails at any step leaves the table with its complete
\* previous content or with the complete new content.
C9_FailedWriteKeepsOldOrNew ==
    pc = "failed" => (sheet.values = prev.values \/ sheet.values = op.target)

(***************************************************************************)
(* Two writers upserting into one table at the same time.  Each writer     *)
(* runs upsert_table once: it reads the table and computes final_df, then  *)
(* write_table clears the sheet and updates it, one API call per step.     *)
(* Nothing orders the calls of the two writers.                            *)
(***************************************************************************)
Writers == {1, 2}
Other(w) == 3 - w

\* the row a writer upserts: the writers use different keys
RaceFrames(w) ==
    {[columns |-> <<"k", "v">>, rows |-> <<<<IF w = 1 THEN "a" ELSE "b", v>>>>] :
        v \in {"x", "y"}}

RaceSheets ==
    {ClearedSheet,
     [exists |-> TRUE, values |-> <<<<"k", "v">>, <<"c", "x">>>>],
     [exists |-> TRUE, values |-> <<<<"k", "v">>, <<"a", "x">>, <<"b", "y">>>>]}

NoUpsert == [df |-> EmptyDF, final |-> EmptyDF, overlapped |-> FALSE]

InitRace ==
    /\ sheet \in RaceSheets
    /\ store = <<>>
    /\ pc = [w \in Writers |-> "idle"]
    /\ op = [w \in Writers |-> NoUpsert]
    /\ prev = sheet

\* upsert_table up to the call of write_table: existing is read and final_df
\* computed from it; overlapped tells whether the other writer was in the
\* middle of its own call at that moment
RaceBegin(w, df) ==
    /\ pc[w] = "idle"
    /\ ~UpsertRaises(sheet, df, <<"k">>)
    /\ op' = [op EXCEPT ![w] = [df |-> df,
                                final |-> UpsertFinal(sheet, df, <<"k">>),
                                overlapped |-> pc[Other(w)] \in {"clear", "update"}]]
    /\ pc' = [pc EXCEPT ![w] = "clear"]
    /\ UNCHANGED <<sheet, store, prev>>

\* write_table: worksheet.clear()
RaceClear(w) ==
    /\ pc[w] = "clear"
    /\ sheet' = ClearStep(sheet)
    /\ pc' = [pc EXCEPT ![w] = "update"]
    /\ UNCHANGED <<store, op, prev>>

\* write_table: worksheet.update([header] + rows)
RaceUpdate(w) ==
    /\ pc[w] = "update"
    /\ sheet' = UpdateStep(sheet, op[w].final)
    /\ pc' = [pc EXCEPT ![w] = "done"]
    /\ UNCHANGED <<store, op, prev>>

NextRace ==
    \/ \E w \in Writers : \E df \in RaceFrames(w) : RaceBegin(w, df)
    \/ \E w \in Writers : RaceClear(w)
    \/ \E w \in Writers : RaceUpdate(w)

SpecRace == InitRace /\ [][NextRace]_vars

\* the table holds the row writer w upserted
HoldsRowOf(w) ==
    \E i \in 2..Len(sheet.values) : sheet.values[i] = op[w].df.rows[1]

BothDone == \A w \in Writers : pc[w] = "done"

\* C26: two upserts of rows with different keys into one table, executed
\* one after the other, leave both rows in the table; executed concurrently
\* they can end with one writer's row missing (C26_Witness is such an end).
C26_SequentialUpsertsKeepBoth ==
    (BothDone /\ \A w \in Writers : ~op[w].overlapped) =>
        \A w \in Writers : HoldsRowOf(w)

\* a lost update: both writers have finished and the row of one is missing
C26_Witness ==
    /\ BothDone
    /\ \E w \in Writers : op[w].overlapped
    /\ \E w \in Writers : ~HoldsRowOf(w) /\ HoldsRowOf(Other(w))

(***************************************************************************)
(* Phase 0 alone: the raw sheet is edited by its owner, run_validation     *)
(* runs.  A first run on a seed batch gives validated_results a content    *)
(* the next run can be compared with.                                      *)
(***************************************************************************)
MaxBatch == 2   \* rows of a raw batch

BaseRaw ==
    [student_id |-> "S001", grade |-> "5", subject |-> "Math", exam_id |-> "E1",
     exam_type |-> "mock", attempt_number |-> "1", score |-> "55",
     max_score |-> "100", exam_date |-> "2024-01-10"]

ValidRaw ==
    {BaseRaw,
     [BaseRaw EXCEPT !.exam_id = "E2", !.exam_type = "real", !.score = "50",
                     !.exam_date = "2024-02-10"],
     [BaseRaw EXCEPT !.student_id = "S002", !.grade = "6", !.score = "90"],
     [BaseRaw EXCEPT !.attempt_number = "2", !.score = "70", !.exam_date = "2024-03-10"],
     [BaseRaw EXCEPT !.attempt_number = "1.0", !.score = "64"]}

\* BaseRaw with one cell changed, or several
DefectRaw ==
    {[BaseRaw EXCEPT !.student_id = " "],
     [BaseRaw EXCEPT !.grade = "13"],
     [BaseRaw EXCEPT !.grade = "0.5"],
     [BaseRaw EXCEPT !.grade = "12.5"],
     [BaseRaw EXCEPT !.grade = "abc"],
     [BaseRaw EXCEPT !.subject = ""],
     [BaseRaw EXCEPT !.exam_type = "Mock"],
     [BaseRaw EXCEPT !.attempt_number = "0"],
     [BaseRaw EXCEPT !.max_score = "0"],
     [BaseRaw EXCEPT !.score = "101"],
     [BaseRaw EXCEPT !.score = "-5"],
     [BaseRaw EXCEPT !.exam_date = "2999-01-01"],
     [BaseRaw EXCEPT !.exam_date = ""],
     [BaseRaw EXCEPT !.grade = "13", !.score = "101"],
     [BaseRaw EXCEPT !.subject = "", !.attempt_number = "0", !.exam_date = ""]}

RawRow(rec) == [j \in 1..Len(REQUIRED_COLUMNS) |-> rec[REQUIRED_COLUMNS[j]]]

RawSheet(recs) ==
    [exists |-> TRUE,
     values |-> <<REQUIRED_COLUMNS>> \o [i \in 1..Len(recs) |-> RawRow(recs[i])]]

\* a raw sheet with the optional "name" column of the data model
NamedSheet(recs) ==
    [exists |-> TRUE,
     values |-> <<Append(REQUIRED_COLUMNS, "name")>>
                \o [i \in 1..Len(recs) |-> Append(RawRow(recs[i]), "Ann")]]

ValRawSheets ==
    {RawSheet(b) : b \in SeqsUpTo(ValidRaw \cup DefectRaw, MaxBatch)}
        \cup {NamedSheet(<<BaseRaw>>), AbsentSheet}

SeedSheets == {RawSheet(<<>>), RawSheet(<<BaseRaw>>)}

RAW == "raw_student_scores"
VALIDATED == "validated_results"

NoRun == [status |-> "none", errors |-> <<>>]

InitValidate ==
    /\ sheet = AbsentSheet
    /\ store = [t \in {RAW, VALIDATED} |-> IF t = RAW THEN RawSheet(<<>>) ELSE AbsentSheet]
    /\ pc = "seed"
    /\ op = NoRun
    /\ prev = store

\* the owner of the raw sheet replaces its content
EditRaw(ws) ==
    /\ pc \in {"seed", "idle"}
    /\ pc = "seed" => ws \in SeedSheets
    /\ store' = [store EXCEPT ![RAW] = ws]
    /\ pc' = IF pc = "seed" THEN "seeded" ELSE "edited"
    /\ op' = NoRun
    /\ prev' = store'
    /\ UNCHANGED sheet

\* run_validation, whole; errors is what validate_rows returned, when the run
\* got that far
Validate ==
    /\ pc \in {"seeded", "edited"}
    /\ LET r == RunValidation(store[RAW])
       IN  /\ op' = [status |-> r.status,
                     errors |-> IF r.status \in {"WorksheetNotFound", "RuntimeError",
                                                 "SchemaError"}
                                THEN <<>>
                                ELSE ValidateRows(ReadTable(store[RAW]))]
           /\ store' = IF r.status = "ok"
                       THEN [store EXCEPT ![VALIDATED] = WriteTable(@, r.df)]
                       ELSE store
    /\ pc' = IF pc = "seeded" THEN "idle" ELSE "validated"
    /\ prev' = store
    /\ UNCHANGED sheet

NextValidate ==
    \/ \E ws \in ValRawSheets \cup SeedSheets : EditRaw(ws)
    \/ Validate

SpecValidate == InitValidate /\ [][NextValidate]_vars

\* the row rules as the data model states them, on the numbers the cells hold
ViolatesRowRule(r) ==
    \/ Blank(r["student_id"])
    \/ IsNaN(r["grade"]) \/ ToNumeric(r["grade"]) < 100 \/ ToNumeric(r["grade"]) > 1200
    \/ Blank(r["subject"])
    \/ r["exam_type"] \notin {"mock", "real"}
    \/ IsNaN(r["attempt_number"]) \/ ToNumeric(r["attempt_number"]) < 100
    \/ IsNaN(r["max_score"]) \/ ToNumeric(r["max_score"]) <= 0
    \/ IsNaN(r["score"]) \/ ToNumeric(r["score"]) < 0
    \/ (~IsNaN(r["score"]) /\ ~IsNaN(r["max_score"])
            /\ ToNumeric(r["score"]) > ToNumeric(r["max_score"]))
    \/ IsNaT(r["exam_date"]) \/ ToDatetime(r["exam_date"]) > NowDay

\* some row of a correctly shaped raw batch violates a row rule, or a
\* (student_id, exam_id, attempt_number) triple repeats
BatchRejectable(raw) ==
    LET df == ReadTable(raw)
        rec(i) == RowRecord(df, df.rows[i])
    IN  /\ raw.exists /\ ~DFEmpty(df) /\ ~SchemaRaises(df)
        /\ \/ \E i \in 1..Len(df.rows) : ViolatesRowRule(rec(i))
           \/ \E i, j \in 1..Len(df.rows) :
                 /\ i # j
                 /\ rec(i)["student_id"] = rec(j)["student_id"]
                 /\ rec(i)["exam_id"] = rec(j)["exam_id"]
                 /\ ~IsNaN(rec(i)["attempt_number"]) /\ ~IsNaN(rec(j)["attempt_number"])
                 /\ ToNumeric(rec(i)["attempt_number"]) = ToNumeric(rec(j)["attempt_number"])

\* C4: a run of run_validation on a batch in which a row violates a row rule
\* or a triple repeats fails and leaves validated_results as it was.
C4_RejectedBatchWritesNothing ==
    (pc = "validated" /\ BatchRejectable(prev[RAW])) =>
        (op.status # "ok" /\ store[VALIDATED] = prev[VALIDATED])

\* C13: every row run_validation writes to validated_results has
\* 1 <= grade <= 12, 0 <= score <= max_score and exam_date <= now, whatever
\* the raw input, grades such as 12.5 or 0.5 included.
C13_ValidatedRowsInRange ==
    (pc \in {"idle", "validated"} /\ op.status = "ok") =>
        LET df == ReadTable(store[VALIDATED])
        IN  \A i \in 1..Len(df.rows) :
                /\ 100 <= Cell(df, df.rows[i], "grade")
                /\ Cell(df, df.rows[i], "grade") <= 1200
                /\ 0 <= Cell(df, df.rows[i], "score")
                /\ Cell(df, df.rows[i], "score") <= Cell(df, df.rows[i], "max_score")
                /\ ToDatetime(Cell(df, df.rows[i], "exam_date")) <= NowDay

\* the first check of the fixed order that a raw row violates, the rules
\* being read on the numbers the cells hold ("none" when it violates none)
FirstViolated(r) ==
    IF Blank(r["student_id"]) THEN "identity"
    ELSE IF IsNaN(r["grade"]) \/ ToNumeric(r["grade"]) < 100
            \/ ToNumeric(r["grade"]) > 1200 THEN "grade"
    ELSE IF Blank(r["subject"]) THEN "subject"
    ELSE IF r["exam_type"] \notin {"mock", "real"} THEN "exam_type"
    ELSE IF IsNaN(r["attempt_number"]) \/ ToNumeric(r["attempt_number"]) < 100
         THEN "attempt_number"
    ELSE IF IsNaN(r["max_score"]) \/ ToNumeric(r["max_score"]) <= 0 THEN "max_score"
    ELSE IF IsNaN(r["score"]) \/ ToNumeric(r["score"]) < 0
            \/ ToNumeric(r["score"]) > ToNumeric(r["max_score"]) THEN "score range"
    ELSE IF IsNaT(r["exam_date"]) \/ ToDatetime(r["exam_date"]) > NowDay THEN "exam_date"
    ELSE "none"

\* the check a recorded error message belongs to
CheckOf(error) ==
    CASE error = "student_id missing or invalid" -> "identity"
      [] error = "grade out of range (1-12)" -> "grade"
      [] error = "invalid subject" -> "subject"
      [] error = "invalid exam_type" -> "exam_type"
      [] error = "attempt_number < 1" -> "attempt_number"
      [] error = "max_score must be > 0" -> "max_score"
      [] error = "score outside valid range" -> "score range"
      [] error \in {"exam_date is invalid or missing", "exam_date is in the future"}
            -> "exam_date"
      [] OTHER -> "unknown"

\* C14: validate_rows records exactly one error for each row that violates a
\* rule and none for a row that violates none, and the error is that of the
\* earliest violated check in the order identity, grade, subject, exam_type,
\* attempt_number, max_score, score range, exam_date.
C14_OneErrorPerBadRowEarliestCheck ==
    (pc \in {"idle", "validated"}
        /\ op.status \in {"ok", "RowValidationError", "UniquenessError"}) =>
        LET df == ReadTable(prev[RAW])
        IN  \A i \in 1..Len(df.rows) :
                LET recorded == {k \in 1..Len(op.errors) : op.errors[k].row_index = i - 1}
                    first == FirstViolated(RowRecord(df, df.rows[i]))
                IN  IF first = "none"
                    THEN recorded = {}
                    ELSE /\ Cardinality(recorded) = 1
                         /\ \A k \in recorded : CheckOf(op.errors[k].error) = first

\* a raw batch of the required shape, no row of which violates a rule and no
\* triple of which repeats
CleanBatch(raw) ==
    /\ raw.exists /\ ~DFEmpty(ReadTable(raw)) /\ ~SchemaRaises(ReadTable(raw))
    /\ ~BatchRejectable(raw)

\* the validated row holds the record of the raw row
SameRecord(raw, r, out, w) ==
    /\ \A c \in {"student_id", "subject", "exam_id", "exam_type"} :
          Cell(out, w, c) = Cell(raw, r, c)
    /\ \A c \in {"grade", "attempt_number", "score", "max_score"} :
          Cell(out, w, c) = ToNumeric(Cell(raw, r, c))
    /\ ToDatetime(Cell(out, w, "exam_date")) = ToDatetime(Cell(raw, r, "exam_date"))

\* row v does not come after row w in the order of
\* (student_id, exam_id, attempt_number)
TripleNotAfter(out, v, w) ==
    LET a == <<StrRank[Cell(out, v, "student_id")], StrRank[Cell(out, v, "exam_id")],
               Cell(out, v, "attempt_number")>>
        b == <<StrRank[Cell(out, w, "student_id")], StrRank[Cell(out, w, "exam_id")],
               Cell(out, w, "attempt_number")>>
    IN  a = b \/ LexLess(a, b)

\* C15: for a correctly shaped raw batch with no rule violation and no
\* repeated triple, run_validation writes a validated table with as many rows
\* as the batch, holding the same records, in ascending order of
\* (student_id, exam_id, attempt_number), whatever the order of the raw rows.
C15_CleanBatchWrittenSorted ==
    (pc \in {"idle", "validated"} /\ CleanBatch(prev[RAW])) =>
        LET raw == ReadTable(prev[RAW])
            out == ReadTable(store[VALIDATED])
        IN  /\ op.status = "ok"
            /\ Len(out.rows) = Len(raw.rows)
            /\ \A i \in 1..Len(raw.rows) :
                  Cardinality({j \in 1..Len(out.rows) :
                                  SameRecord(raw, raw.rows[i], out, out.rows[j])}) = 1
            /\ \A j \in 1..Len(out.rows) :
                  \E i \in 1..Len(raw.rows) :
                      SameRecord(raw, raw.rows[i], out, out.rows[j])
            /\ \A j, k \in 1..Len(out.rows) :
                  j < k => TripleNotAfter(out, out.rows[j], out.rows[k])

\* a clean batch of two rows given in descending order of the triple
C15_Witness ==
    /\ pc = "validated" /\ CleanBatch(prev[RAW]) /\ op.status = "ok"
    /\ Len(ReadTable(prev[RAW]).rows) = 2
    /\ ReadTable(prev[RAW]).rows[1][1] = "S002"
    /\ ReadTable(prev[RAW]).rows[2][1] = "S001"
    /\ ReadTable(store[VALIDATED]).rows[1][1] = "S001"

(***************************************************************************)
(* analytics/metrics.py.  scores is the chronological sequence of a        *)
(* group's scores, in hundredths; results with decimals are in hundredths  *)
(* too (consistency_score in thousandths).                                 *)
(***************************************************************************)
RECURSIVE SumSeq(_)
SumSeq(q) == IF q = <<>> THEN 0 ELSE q[1] + SumSeq(Tail(q))

\* round(a / b, 0) for b > 0: the nearest integer (a tie needs 8 scores or
\* more and does not occur within the bounds)
RoundDiv(a, b) == (2 * a + b) \div (2 * b)

Mean(scores) == RoundDiv(SumSeq(scores), Len(scores))

\* The scores are float64.  A score with decimals is held as the double
\* nearest to it: FloatErr is that double minus the decimal, in units of
\* 2^-52 / 25 (whole for every decimal of two places from 1 up).  Whole
\* numbers, halves and quarters are held exactly; the table lists the other
\* scores of the model.
FloatErr(h) ==
    CASE h = 6040 -> -160
      [] h = 6540 -> 640
      [] h = 7010 -> -640
      [] h = 7510 -> -640
      [] OTHER -> 0

\* b - a on two scores: the difference of the decimals in hundredths and
\* the difference of the two doubles' errors, before rounding
FloatSub(b, a) == [hundredths |-> b - a, err |-> FloatErr(b) - FloatErr(a)]

\* diff > 5 and diff < -5 on the rounded result of the subtraction: next to
\* 5 the doubles are 2^-50 (100 units) apart and 5 is the even neighbour, so
\* the result exceeds 5 when the exact difference exceeds it by more than
\* 50 units
Above5(d) == d.hundredths > 500 \/ (d.hundredths = 500 /\ d.err > 50)
BelowMinus5(d) == d.hundredths < -500 \/ (d.hundredths = -500 /\ d.err < -50)

calculate_trend(scores) ==
    IF Len(scores) < 2 THEN "insufficient_data"
    ELSE LET diff == FloatSub(scores[Len(scores)], scores[1])
         IN  IF Above5(diff) THEN "improving"
             ELSE IF BelowMinus5(diff) THEN "declining"
             ELSE "stable"

improvement_velocity(scores) ==
    IF Len(scores) < 2 THEN 0
    ELSE RoundDiv(scores[Len(scores)] - scores[1], Len(scores))

\* n^2 times the population variance of the scores, in whole points squared
\* (the scores of the model are whole numbers)
VarTimesN2(scores) ==
    LET k == [i \in 1..Len(scores) |-> scores[i] \div 100]
    IN  Len(k) * SumSeq([i \in 1..Len(k) |-> k[i] * k[i]]) - SumSeq(k) * SumSeq(k)

\* round(1 / (1 + std), 3), in thousandths: the c with
\* c - 1/2 <= 1000 n / (n + sqrt W) <= c + 1/2, the even one on a tie
consistency_score(scores) ==
    IF Len(scores) < 2 THEN 1000
    ELSE LET n == Len(scores)
             W == VarTimesN2(scores)
             F == CHOOSE f \in 0..(101 * n) : f * f <= W /\ W < (f + 1) * (f + 1)
             lo == (1000 * n) \div (n + F + 1)
             hi == ((1000 * n) \div (n + F)) + 1
             near(c) ==
                 /\ (c >= 1 => (2 * c - 1) * (2 * c - 1) * W
                                 <= n * n * (2001 - 2 * c) * (2001 - 2 * c))
                 /\ (1999 - 2 * c <= 0
                        \/ n * n * (1999 - 2 * c) * (1999 - 2 * c)
                             <= (2 * c + 1) * (2 * c + 1) * W)
             cands == {c \in lo..hi : c <= 1000 /\ near(c)}
         IN  IF Cardinality(cands) = 1 THEN CHOOSE c \in cands : TRUE
             ELSE CHOOSE c \in cands : c % 2 = 0

\* df[df.exam_type == "mock"].score.mean() and the real one; None (<<>>) when
\* a side is empty, else <<round(real_avg - mock_avg, 2)>>
mock_vs_real_gap(group) ==
    LET mock == SelectSeq(group, LAMBDA r : r.exam_type = "mock")
        real == SelectSeq(group, LAMBDA r : r.exam_type = "real")
        sm == SumSeq([i \in 1..Len(mock) |-> mock[i].score])
        sr == SumSeq([i \in 1..Len(real) |-> real[i].score])
    IN  IF Len(mock) = 0 \/ Len(real) = 0 THEN <<>>
        ELSE <<RoundDiv(sr * Len(mock) - sm * Len(real), Len(mock) * Len(real))>>

performance_band(avg_score) ==
    IF avg_score < 6000 THEN "low"
    ELSE IF avg_score < 8000 THEN "medium"
    ELSE "high"

\* volatility_level guarding on an empty sequence only
volatility_level_OneIsLow(scores) == IF Len(scores) < 1 THEN "unknown" ELSE "low"

\* np.std < 5, < 10 on the variance
volatility_level(scores) ==
    IF Len(scores) < 2 THEN "unknown"
    ELSE LET n == Len(scores)
             W == VarTimesN2(scores)
         IN  IF W < 25 * n * n THEN "low"
             ELSE IF W < 100 * n * n THEN "medium"
             ELSE "high"

\* recent_average(scores, window=2)
recent_average(scores) ==
    IF Len(scores) < 2 THEN Mean(scores)
    ELSE Mean(SubSeq(scores, Len(scores) - 1, Len(scores)))

\* risk_flag with a low average alone giving "high"
risk_flag_LowAverageIsHigh(avg_score, trend) ==
    IF avg_score < 6000 THEN "high"
    ELSE IF trend = "declining" THEN "medium"
    ELSE "low"

\* risk_flag with either condition alone giving "high"
risk_flag_EitherIsHigh(avg_score, trend) ==
    IF avg_score < 6000 \/ trend = "declining" THEN "high" ELSE "low"

risk_flag(avg_score, trend) ==
    IF avg_score < 6000 /\ trend = "declining" THEN "high"
    ELSE IF avg_score < 6000 \/ trend = "declining" THEN "medium"
    ELSE "low"

data_confidence(attempt_count) ==
    IF attempt_count >= 5 THEN "high"
    ELSE IF attempt_count >= 3 THEN "medium"
    ELSE "low"

(***************************************************************************)
(* analytics/student_analyzer.py                                           *)
(***************************************************************************)
ANALYTICS == "subject_analytics"

ANALYTICS_COLUMNS ==
    <<"student_id", "grade", "subject", "attempt_count", "average_score",
      "latest_score", "recent_avg_score", "trend", "improvement_velocity",
      "consistency_score", "volatility_level", "mock_vs_real_gap",
      "performance_band", "risk_flag", "data_confidence_level">>

\* the rows of a frame as records over its columns
Records(df) ==
    [i \in 1..Len(df.rows) |-> [c \in Range(df.columns) |-> Cell(df, df.rows[i], c)]]

\* a frame from records, with the given columns
FrameOf(cols, recs) ==
    [columns |-> cols,
     rows |-> [i \in 1..Len(recs) |-> [j \in 1..Len(cols) |-> recs[i][cols[j]]]]]

\* int(grade) of the grade text of a validated row raises ValueError unless
\* the text is an integer literal
GradeIntRaises(n) == n % 100 # 0
GradeInt(n) == n \div 100

\* df.sort_values("exam_date")
SortByDate(recs) ==
    StableSort(recs, [i \in 1..Len(recs) |-> <<ToDatetime(recs[i]["exam_date"])>>])

GroupKey(r) == <<r["student_id"], r["grade"], r["subject"]>>

\* groupby sorts the groups by key; the grade is compared as text
GroupRank(k) == <<StrRank[k[1]], GradeTextRank(k[2]), StrRank[k[3]]>>

\* the group keys in the order groupby iterates them
GroupKeys(recs) ==
    LET keys == {GroupKey(recs[i]) : i \in 1..Len(recs)}
        rankOf(k) == 1 + Cardinality({o \in keys : LexLess(GroupRank(o), GroupRank(k))})
    IN  [p \in 1..Cardinality(keys) |-> CHOOSE k \in keys : rankOf(k) = p]

\* a grouping that hands every group all the rows
GroupOf_AllRows(recs, k) == recs

GroupOf(recs, k) == SelectSeq(recs, LAMBDA r : GroupKey(r) = k)

\* the record analyze_students builds for one group (rows in date order)
AnalyticsRecord(k, group) ==
    LET scores == [i \in 1..Len(group) |-> group[i]["score"]]
        typed == [i \in 1..Len(group) |->
                     [exam_type |-> group[i]["exam_type"], score |-> group[i]["score"]]]
        avg_score == Mean(scores)
        trend == calculate_trend(scores)
    IN  [student_id |-> k[1],
         grade |-> GradeInt(k[2]),
         subject |-> k[3],
         attempt_count |-> Len(scores),
         average_score |-> avg_score,
         latest_score |-> scores[Len(scores)],
         recent_avg_score |-> recent_average(scores),
         trend |-> trend,
         improvement_velocity |-> improvement_velocity(scores),
         consistency_score |-> consistency_score(scores),
         volatility_level |-> volatility_level(scores),
         mock_vs_real_gap |-> mock_vs_real_gap(typed),
         performance_band |-> performance_band(avg_score),
         risk_flag |-> risk_flag(avg_score, trend),
         data_confidence_level |-> data_confidence(Len(scores))]

\* analyze_students on the validated worksheet: "ok" and the frame written
\* over subject_analytics, or the error raised
AnalyzeStudents(validated) ==
    LET df == ReadTable(validated)
        recs == SortByDate(Records(df))
        keys == GroupKeys(recs)
    IN  IF ReadRaises(validated) THEN [status |-> "WorksheetNotFound", df |-> EmptyDF]
        ELSE IF DFEmpty(df) THEN [status |-> "RuntimeError", df |-> EmptyDF]
        ELSE IF \E i \in 1..Len(keys) : GradeIntRaises(keys[i][2])
             THEN [status |-> "ValueError", df |-> EmptyDF]
        ELSE [status |-> "ok",
              df |-> FrameOf(ANALYTICS_COLUMNS,
                        [i \in 1..Len(keys) |->
                            AnalyticsRecord(keys[i], GroupOf(recs, keys[i]))])]

(***************************************************************************)
(* insights/insight_engine.py                                              *)
(***************************************************************************)
INSIGHTS == "subject_insights"

INSIGHT_REQUIRED ==
    {"student_id", "grade", "subject", "average_score", "trend", "volatility_level",
     "risk_flag", "data_confidence_level", "performance_band", "mock_vs_real_gap"}

INSIGHT_COLUMNS ==
    <<"student_id", "grade", "subject", "primary_issue", "secondary_issue",
      "root_cause_category", "academic_risk_level", "urgency_level",
      "recommended_focus_area", "teacher_intervention_needed",
      "explanation_summary", "key_evidence_points", "confidence_in_insight",
      "summary_signal">>

\* <<primary issue, root cause, urgency>>
\* the cascade with "avg <= 60" for "avg < 60"
derive_primary_issue_AtMost60(avg, trend) ==
    IF avg <= 6000 /\ trend = "declining"
    THEN <<"Consistently low and declining performance",
           "Conceptual gaps with poor reinforcement", "high">>
    ELSE IF avg <= 6000
    THEN <<"Low overall performance", "Weak foundational understanding", "medium">>
    ELSE IF trend = "declining"
    THEN <<"Performance regression", "Inconsistent preparation or focus", "medium">>
    ELSE <<"No major academic concern", "Healthy learning pattern", "low">>

derive_primary_issue(avg, trend) ==
    IF avg < 6000 /\ trend = "declining"
    THEN <<"Consistently low and declining performance",
           "Conceptual gaps with poor reinforcement", "high">>
    ELSE IF avg < 6000
    THEN <<"Low overall performance", "Weak foundational understanding", "medium">>
    ELSE IF trend = "declining"
    THEN <<"Performance regression", "Inconsistent preparation or focus", "medium">>
    ELSE <<"No major academic concern", "Healthy learning pattern", "low">>

\* derive_secondary_issue flagging a gap of -5 as well
derive_secondary_issue_AtMostMinus5(volatility, mock_gap) ==
    IF volatility = "high" THEN "Highly inconsistent performance"
    ELSE IF mock_gap # <<>> /\ mock_gap[1] <= -500
    THEN "Exam pressure affecting real exam performance"
    ELSE "None observed"

\* mock_gap is <<>> (NaN) or <<gap>>
derive_secondary_issue(volatility, mock_gap) ==
    IF volatility = "high" THEN "Highly inconsistent performance"
    ELSE IF mock_gap # <<>> /\ mock_gap[1] < -500
    THEN "Exam pressure affecting real exam performance"
    ELSE "None observed"

derive_focus_area(urgency) ==
    IF urgency = "high" THEN "Immediate concept revision and guided practice"
    ELSE IF urgency = "medium" THEN "Structured revision and consistency building"
    ELSE "Maintain current learning approach"

\* build_explanation: the evidence strings, each given by its kind and the
\* values it quotes, in the order they are appended
key_evidence_points(row) ==
    <<<<"average", row["average_score"], row["performance_band"]>>,
      <<"trend", row["trend"]>>>>
    \o (IF row["volatility_level"] = "high" THEN <<<<"volatility">>>> ELSE <<>>)
    \o (IF row["mock_vs_real_gap"] # <<>> /\ row["mock_vs_real_gap"][1] < -500
        THEN <<<<"exam pressure">>>> ELSE <<>>)
    \o <<<<"risk", row["risk_flag"], row["data_confidence_level"]>>>>

\* the insight derive_insights appends for one analytics row
InsightRecord(row) ==
    LET issue == derive_primary_issue(row["average_score"], row["trend"])
        urgency == issue[3]
    IN  [student_id |-> row["student_id"],
         grade |-> row["grade"],
         subject |-> row["subject"],
         primary_issue |-> issue[1],
         secondary_issue |->
             derive_secondary_issue(row["volatility_level"], row["mock_vs_real_gap"]),
         root_cause_category |-> issue[2],
         academic_risk_level |-> row["risk_flag"],
         urgency_level |-> urgency,
         recommended_focus_area |-> derive_focus_area(urgency),
         teacher_intervention_needed |-> IF urgency = "high" THEN "yes" ELSE "no",
         explanation_summary |-> issue[1],
         key_evidence_points |-> key_evidence_points(row),
         confidence_in_insight |-> row["data_confidence_level"],
         summary_signal |-> <<row["performance_band"], row["risk_flag"]>>]

\* derive_insights on the analytics worksheet
DeriveInsights(analytics) ==
    LET df == ReadTable(analytics)
    IN  IF ReadRaises(analytics) THEN [status |-> "WorksheetNotFound", df |-> EmptyDF]
        ELSE IF DFEmpty(df) THEN [status |-> "RuntimeError", df |-> EmptyDF]
        ELSE IF ~(INSIGHT_REQUIRED \subseteq Range(df.columns))
             THEN [status |-> "ValueError", df |-> EmptyDF]
        ELSE [status |-> "ok",
              df |-> FrameOf(INSIGHT_COLUMNS,
                        [i \in 1..Len(df.rows) |-> InsightRecord(Records(df)[i])])]

(***************************************************************************)
(* The pure functions of metrics.py and insight_engine.py, called one at a *)
(* time with arguments drawn from small sets: score sequences that have    *)
(* differences of exactly 5 points, averages around 60, every trend.       *)
(***************************************************************************)
MaxScores == 2   \* scores of a sequence

\* scores in hundredths: whole ones and ones with a decimal
ScoreValues == {6040, 6400, 6540, 7000, 7010, 7200, 7500, 7510, 7600}
WholeScores == {v \in ScoreValues : v % 100 = 0}
AvgValues == {5500, 5999, 6000, 9000}
TrendValues == {"improving", "declining", "stable", "insufficient_data"}

NoCall ==
    [fn |-> "none", scores |-> <<>>, avg |-> 0, trend |-> "", result |-> "",
     issue |-> <<>>, velocity |-> 0, consistency |-> 0, volatility |-> ""]

InitMetrics ==
    /\ sheet = AbsentSheet
    /\ store = <<>>
    /\ pc = "idle"
    /\ op = NoCall
    /\ prev = <<>>

CallTrend(scores) ==
    /\ pc = "idle"
    /\ op' = [NoCall EXCEPT !.fn = "calculate_trend", !.scores = scores,
                            !.result = calculate_trend(scores)]
    /\ pc' = "done"
    /\ UNCHANGED <<sheet, store, prev>>

CallRisk(avg, trend) ==
    /\ pc = "idle"
    /\ op' = [NoCall EXCEPT !.fn = "risk_flag", !.avg = avg, !.trend = trend,
                            !.result = risk_flag(avg, trend)]
    /\ pc' = "done"
    /\ UNCHANGED <<sheet, store, prev>>

CallIssue(avg, trend) ==
    /\ pc = "idle"
    /\ op' = [NoCall EXCEPT !.fn = "derive_primary_issue", !.avg = avg,
                            !.trend = trend,
                            !.issue = derive_primary_issue(avg, trend)]
    /\ pc' = "done"
    /\ UNCHANGED <<sheet, store, prev>>

\* the four metrics of a score sequence, as analyze_students calls them on a
\* group's scores; the sequence may be empty here
CallSequenceMetrics(scores) ==
    /\ pc = "idle"
    /\ op' = [NoCall EXCEPT !.fn = "sequence_metrics", !.scores = scores,
                            !.result = calculate_trend(scores),
                            !.velocity = improvement_velocity(scores),
                            !.consistency = consistency_score(scores),
                            !.volatility = volatility_level(scores)]
    /\ pc' = "done"
    /\ UNCHANGED <<sheet, store, prev>>

MetricsReturn ==
    /\ pc = "done"
    /\ pc' = "idle"
    /\ op' = NoCall
    /\ UNCHANGED <<sheet, store, prev>>

NextMetrics ==
    \/ \E scores \in SeqsUpTo(ScoreValues, MaxScores) \ {<<>>} : CallTrend(scores)
    \/ \E scores \in SeqsUpTo(WholeScores, MaxScores) : CallSequenceMetrics(scores)
    \/ \E avg \in AvgValues, trend \in TrendValues : CallRisk(avg, trend)
    \/ \E avg \in AvgValues, trend \in TrendValues : CallIssue(avg, trend)
    \/ MetricsReturn

SpecMetrics == InitMetrics /\ [][NextMetrics]_vars

\* C18: derive_primary_issue is the four-rule cascade: urgency is high exactly
\* when the average is below 60 and the trend is declining, medium exactly
\* when one of the two holds and not the other (the issue being low overall
\* performance for the average, performance regression for the trend), low
\* exactly when neither holds; the rules are exhaustive.
C18_PrimaryIssueCascade ==
    (pc = "done" /\ op.fn = "derive_primary_issue") =>
        LET below == op.avg < 6000
            declining == op.trend = "declining"
        IN  /\ op.issue[3] \in {"high", "medium", "low"}
            /\ op.issue[3] = "high" <=> (below /\ declining)
            /\ op.issue[3] = "medium" <=> (below # declining)
            /\ op.issue[3] = "low" <=> (~below /\ ~declining)
            /\ (below /\ ~declining) => op.issue[1] = "Low overall performance"
            /\ (~below /\ declining) => op.issue[1] = "Performance regression"
            /\ op.issue[1] = "Low overall performance" => (below /\ ~declining)
            /\ op.issue[1] = "Performance regression" => (~below /\ declining)

\* an average of exactly 60 with a declining trend: the regression rule
C18_Witness ==
    /\ pc = "done" /\ op.fn = "derive_primary_issue"
    /\ op.avg = 6000 /\ op.trend = "declining"
    /\ op.issue[1] = "Performance regression" /\ op.issue[3] = "medium"

\* C19: risk_flag is high iff the average is below 60 and the trend is
\* declining, medium iff exactly one of the two holds, low iff neither holds,
\* for every average and every trend value; so risk(55, declining) = high,
\* risk(55, stable) = medium, risk(90, declining) = medium and
\* risk(90, stable) = low.
C19_RiskHighMediumLow ==
    (pc = "done" /\ op.fn = "risk_flag") =>
        LET below == op.avg < 6000
            declining == op.trend = "declining"
        IN  /\ op.result = "high" <=> (below /\ declining)
            /\ op.result = "medium" <=> (below # declining)
            /\ op.result = "low" <=> (~below /\ ~declining)
            /\ (op.avg = 5500 /\ op.trend = "declining") => op.result = "high"
            /\ (op.avg = 5500 /\ op.trend = "stable") => op.result = "medium"
            /\ (op.avg = 9000 /\ op.trend = "declining") => op.result = "medium"
            /\ (op.avg = 9000 /\ op.trend = "stable") => op.result = "low"

\* risk(90, declining) = medium
C19_Witness ==
    /\ pc = "done" /\ op.fn = "risk_flag"
    /\ op.avg = 9000 /\ op.trend = "declining" /\ op.result = "medium"

\* C20: for every score sequence of at least 2 points the trend depends only
\* on last minus first: improving iff the difference is strictly greater
\* than 5, declining iff it is strictly less than -5, stable otherwise, so
\* differences of exactly +5 and -5 are stable.
C20_TrendByDifference ==
    (pc = "done" /\ op.fn = "calculate_trend" /\ Len(op.scores) >= 2) =>
        LET difference == op.scores[Len(op.scores)] - op.scores[1]
        IN  /\ op.result = "improving" <=> difference > 500
            /\ op.result = "declining" <=> difference < -500
            /\ op.result = "stable" <=> (-500 <= difference /\ difference <= 500)

\* C21: for every score sequence of length 0 or 1 the trend is
\* insufficient_data, the velocity 0.0, the consistency 1.0 and the
\* volatility unknown.
C21_ShortSequenceDefaults ==
    (pc = "done" /\ op.fn = "sequence_metrics" /\ Len(op.scores) < 2) =>
        /\ op.result = "insufficient_data"
        /\ op.velocity = 0
        /\ op.consistency = 1000
        /\ op.volatility = "unknown"

\* the metrics of the empty sequence
C21_Witness ==
    /\ pc = "done" /\ op.fn = "sequence_metrics" /\ op.scores = <<>>
    /\ op.result = "insufficient_data" /\ op.volatility = "unknown"

(***************************************************************************)
(* Backend replies.  A reply is text: a lead-in, a body and a trailer (the *)
(* lead-in and trailer hold no brace).  json.loads is a table from body    *)
(* literals to the Python value they denote.  A Python value is given by   *)
(* its type, its items when it is a dict (key, value pairs in order) and   *)
(* its size (length of a list or str, the number itself for an int).  A    *)
(* value inside a dict is given by its type and its text: the JSON text of *)
(* a list or dict, str(v) otherwise.                                       *)
(***************************************************************************)
None == [type |-> "null", items |-> <<>>, size |-> 0]
Dict(items) == [type |-> "dict", items |-> items, size |-> Len(items)]
Str(text) == [type |-> "str", text |-> text]
Null == [type |-> "null", text |-> "None"]

B_PROFILE == "{\"overall_summary\": \"good\", \"confidence_note\": \"high\"}"
B_OTHERKEYS == "{\"overall_summary\": \"good\", \"key_strengths\": [\"algebra\"]}"
B_OVERRIDE == "{\"student_id\": \"S002\", \"grade\": 9, \"overall_summary\": null}"
B_NARRATIVE ==
    "{\"performance_summary\": \"steady\", \"improvement_plan\": \"revise\", \"motivation_note\": \"keep going\", \"confidence_note\": \"high\"}"
B_PARTIAL == "{\"performance_summary\": \"steady\"}"
B_EMPTYOBJ == "{}"
B_LIST == "[1]"
B_NULL == "null"
B_BRACES == "{oops}"
B_PROSE == "I cannot help with that"

\* json.loads of a body: whether it parses and the value
JsonLoads ==
    [b \in {B_PROFILE, B_OTHERKEYS, B_OVERRIDE, B_NARRATIVE, B_PARTIAL,
            B_EMPTYOBJ, B_LIST, B_NULL, B_BRACES, B_PROSE} |->
        CASE b = B_PROFILE ->
                [ok |-> TRUE, value |-> Dict(<<<<"overall_summary", Str("good")>>,
                                               <<"confidence_note", Str("high")>>>>)]
          [] b = B_OTHERKEYS ->
                [ok |-> TRUE, value |-> Dict(<<<<"overall_summary", Str("good")>>,
                                               <<"key_strengths",
                                                 [type |-> "list", text |-> "[\"algebra\"]"]>>>>)]
          [] b = B_OVERRIDE ->
                [ok |-> TRUE, value |-> Dict(<<<<"student_id", Str("S002")>>,
                                               <<"grade", [type |-> "int", text |-> "9"]>>,
                                               <<"overall_summary", Null>>>>)]
          [] b = B_NARRATIVE ->
                [ok |-> TRUE, value |-> Dict(<<<<"performance_summary", Str("steady")>>,
                                               <<"improvement_plan", Str("revise")>>,
                                               <<"motivation_note", Str("keep going")>>,
                                               <<"confidence_note", Str("high")>>>>)]
          [] b = B_PARTIAL ->
                [ok |-> TRUE, value |-> Dict(<<<<"performance_summary", Str("steady")>>>>)]
          [] b = B_EMPTYOBJ -> [ok |-> TRUE, value |-> Dict(<<>>)]
          [] b = B_LIST -> [ok |-> TRUE, value |-> [type |-> "list", items |-> <<>>, size |-> 1]]
          [] b = B_NULL -> [ok |-> TRUE, value |-> None]
          [] OTHER -> [ok |-> FALSE, value |-> None]]

\* text.find("{") != -1 and text.rfind("}") > it: the body holds both braces
HasBraces(body) == body \notin {B_LIST, B_NULL, B_PROSE, ""}

Text(lead, body, trail) == [lead |-> lead, body |-> body, trail |-> trail]
EmptyText == Text("", "", "")

\* bool(value)
Truthy(v) ==
    CASE v.type = "dict" -> Len(v.items) > 0
      [] v.type \in {"list", "str"} -> v.size > 0
      [] v.type = "int" -> v.size # 0
      [] OTHER -> FALSE

\* safe_json_parse (the same code in both modules); loaded is json.loads of
\* the body
ParseWith(text, loaded) ==
    IF text = EmptyText THEN None
    ELSE IF text.lead = "" /\ text.trail = "" /\ loaded.ok THEN loaded.value
    ELSE IF HasBraces(text.body) /\ loaded.ok THEN loaded.value
    ELSE None

safe_json_parse(text) == ParseWith(text, JsonLoads[text.body])

\* what the backend does on one attempt: returns text, or raises
Returns(text) == [kind |-> "text", text |-> text]
Fails == [kind |-> "raise", text |-> EmptyText]

MAX_RETRIES == 3

KNOWN_PROVIDERS == {"ollama", "openai", "claude", "gemini", "deepseek"}

\* a loop without retry: whatever the first attempt gives ends it
EndsLoop_FirstAttempt(resp) == TRUE

\* the first attempt that ends the retry loop: the backend raises or the
\* parsed reply is truthy (0 when no attempt does)
EndsLoop(resp) == resp.kind = "raise" \/ Truthy(safe_json_parse(resp.text))

Least(S) == IF S = {} THEN 0 ELSE CHOOSE i \in S : \A j \in S : i <= j

FirstEnding(resps) == Least({i \in 1..MAX_RETRIES : EndsLoop(resps[i])})

FALLBACK ==
    Dict(<<<<"performance_summary", Str("narrative could not be generated")>>,
           <<"improvement_plan", Str("continue reviewing core concepts")>>,
           <<"motivation_note", Str("progress is built through consistency")>>,
           <<"confidence_note", Str("low")>>>>)

\* a retry loop that treats an unknown provider as a backend that never
\* answers: it runs out
LoopResult_UnknownRunsOut(provider, resps, e, exhausted) ==
    IF provider \notin KNOWN_PROVIDERS \/ e = 0 THEN exhausted
    ELSE IF resps[e].kind = "raise"
         THEN [status |-> "BackendError", value |-> None, calls |-> e]
    ELSE [status |-> "ok", value |-> safe_json_parse(resps[e].text), calls |-> e]

\* generate_summary under the provider the module read when it was imported;
\* resps[i] is what the backend does on attempt i
\* how the retry loop ends at attempt e (e = 0: it runs out), given what
\* running out does
LoopResult(provider, resps, e, exhausted) ==
    IF provider \notin KNOWN_PROVIDERS
    THEN [status |-> "ValueError", value |-> None, calls |-> 0]
    ELSE IF e = 0 THEN exhausted
    ELSE IF resps[e].kind = "raise"
         THEN [status |-> "BackendError", value |-> None, calls |-> e]
    ELSE [status |-> "ok", value |-> safe_json_parse(resps[e].text), calls |-> e]

generate_summary(provider, resps) ==
    LoopResult(provider, resps, FirstEnding(resps),
               [status |-> "ok", value |-> FALLBACK, calls |-> MAX_RETRIES])

\* generate_consolidated_summary with the exhaustion policy of the
\* per-subject generator: a canned value instead of the RuntimeError
generate_consolidated_summary_Canned(llm_provider, resps) ==
    LoopResult(llm_provider, resps, FirstEnding(resps),
               [status |-> "ok", value |-> FALLBACK, calls |-> MAX_RETRIES])

\* generate_consolidated_summary
generate_consolidated_summary(llm_provider, resps) ==
    LoopResult(llm_provider, resps, FirstEnding(resps),
               [status |-> "RuntimeError", value |-> None, calls |-> MAX_RETRIES])

\* normalize_for_sheets
normalize_for_sheets(v) == IF v.type = "null" THEN "" ELSE v.text

(***************************************************************************)
(* insights/student_consolidator.py                                        *)
(***************************************************************************)
SUMMARIES == "subject_summaries"
HISTORY == "student_consolidated_history"
LATEST == "student_consolidated_latest"

\* the text a sheet shows for an int cell
IntText(n) == <<"1", "2", "3", "4", "5", "6", "7", "8", "9", "10", "11", "12">>[n]

\* d[k] = v on a dict given as its items in insertion order
DictSet(d, k, v) ==
    IF \E i \in 1..Len(d) : d[i][1] = k
    THEN [i \in 1..Len(d) |-> IF d[i][1] = k THEN <<k, v>> ELSE d[i]]
    ELSE Append(d, <<k, v>>)

\* {**d, **{k: normalize_for_sheets(v) for k, v in items}}
RECURSIVE DictUpdate(_, _)
DictUpdate(d, items) ==
    IF items = <<>> THEN d
    ELSE DictUpdate(DictSet(d, Head(items)[1], normalize_for_sheets(Head(items)[2])),
                    Tail(items))

\* the one-row frame run_student_consolidation persists
OutputFrame(student_id, grade, consolidated, llm_provider) ==
    LET d == DictSet(DictUpdate(<<<<"student_id", student_id>>, <<"grade", IntText(grade)>>>>,
                                consolidated.items),
                     "llm_provider", llm_provider)
    IN  [columns |-> [i \in 1..Len(d) |-> d[i][1]],
         rows |-> <<[i \in 1..Len(d) |-> d[i][2]]>>]

\* df[df["student_id"] == student_id]
RowsOf(df, student_id) ==
    SelectSeq(df.rows, LAMBDA r : Cell(df, r, "student_id") = student_id)

\* run_student_consolidation(student_id) on the tables st: how it ends, the
\* tables it leaves and the number of backend calls it made
ConsolEnds(status, tables, calls) == [status |-> status, store |-> tables, calls |-> calls]

\* append_table to History, then upsert_table to Latest
Persist(st, output_df, calls) ==
    IF UpsertRaises(st[LATEST], output_df, <<"student_id">>)
    THEN ConsolEnds("KeyError",
                    [st EXCEPT ![HISTORY] = AppendTable(@, output_df)], calls)
    ELSE ConsolEnds("ok",
                    [st EXCEPT ![HISTORY] = AppendTable(@, output_df),
                               ![LATEST] = UpsertTable(@, output_df, <<"student_id">>)],
                    calls)

\* from the generate call on; grade is int(a.iloc[0]["grade"])
Generated(st, student_id, grade, llm_provider, gen) ==
    IF gen.status # "ok" THEN ConsolEnds(gen.status, st, gen.calls)
    ELSE IF gen.value.type # "dict" THEN ConsolEnds("AttributeError", st, gen.calls)
    ELSE Persist(st, OutputFrame(student_id, grade, gen.value, llm_provider), gen.calls)

\* from the two frames read on
Filtered(st, analytics_df, summaries_df, student_id, llm_provider, resps) ==
    IF "student_id" \notin Range(analytics_df.columns)
       \/ "student_id" \notin Range(summaries_df.columns)
    THEN ConsolEnds("KeyError", st, 0)
    ELSE IF RowsOf(analytics_df, student_id) = <<>> \/ RowsOf(summaries_df, student_id) = <<>>
    THEN ConsolEnds("skipped", st, 0)
    ELSE IF "grade" \notin Range(analytics_df.columns) THEN ConsolEnds("KeyError", st, 0)
    ELSE Generated(st, student_id,
                   Cell(analytics_df, RowsOf(analytics_df, student_id)[1], "grade"),
                   llm_provider, generate_consolidated_summary(llm_provider, resps))

\* run_student_consolidation(student_id) on the tables st: how it ends, the
\* tables it leaves and the number of backend calls it made
run_student_consolidation(st, student_id, llm_provider, resps) ==
    IF ReadRaises(st[ANALYTICS]) \/ ReadRaises(st[SUMMARIES])
    THEN ConsolEnds("WorksheetNotFound", st, 0)
    ELSE Filtered(st, ReadTable(st[ANALYTICS]), ReadTable(st[SUMMARIES]),
                  student_id, llm_provider, resps)

(***************************************************************************)
(* llm/summary_generator.py: run_llm                                       *)
(***************************************************************************)
SUMMARY_COLUMNS ==
    <<"student_id", "grade", "subject", "performance_summary", "improvement_plan",
      "motivation_note", "confidence_note", "llm_provider">>

HEAD_ROWS == 20

\* df.head(20)
Head20(df) ==
    [columns |-> df.columns,
     rows |-> SubSeq(df.rows, 1, IF Len(df.rows) < HEAD_ROWS THEN Len(df.rows) ELSE HEAD_ROWS)]

HasKey(items, k) == \E i \in 1..Len(items) : items[i][1] = k
DictGet(items, k) == items[CHOOSE i \in 1..Len(items) : items[i][1] = k][2]

\* the cell a sheet shows for a value update() is given
CellText(v) == IF v.type = "null" THEN "" ELSE v.text

\* one turn of run_llm's loop: generate_summary(row), then the record built
\* from the row and the summary
RowEnds(status, rec, calls) == [status |-> status, record |-> rec, calls |-> calls]

\* the record run_llm appends, from the row and what generate_summary gave
Summarised(row, provider, gen) ==
    IF gen.status # "ok" THEN RowEnds(gen.status, <<>>, gen.calls)
    ELSE IF gen.value.type # "dict" THEN RowEnds("TypeError", <<>>, gen.calls)
    ELSE IF \E k \in {"performance_summary", "improvement_plan",
                      "motivation_note", "confidence_note"} : ~HasKey(gen.value.items, k)
    THEN RowEnds("KeyError", <<>>, gen.calls)
    ELSE RowEnds("ok",
             [student_id |-> row["student_id"],
              grade |-> row["grade"],
              subject |-> row["subject"],
              performance_summary |-> CellText(DictGet(gen.value.items, "performance_summary")),
              improvement_plan |-> CellText(DictGet(gen.value.items, "improvement_plan")),
              motivation_note |-> CellText(DictGet(gen.value.items, "motivation_note")),
              confidence_note |-> CellText(DictGet(gen.value.items, "confidence_note")),
              llm_provider |-> provider],
             gen.calls)

\* one turn of run_llm's loop: generate_summary(row), then the record built
\* from the row and the summary
SummariseRow(row, provider, resps) ==
    Summarised(row, provider, generate_summary(provider, resps))

(***************************************************************************)
(* Consolidation runs, one at a time (single writer), on a spreadsheet     *)
(* whose consolidated tables start absent or empty.                        *)
(***************************************************************************)
MaxHistory == 2

Good == Returns(Text("", B_NARRATIVE, ""))

\* subject_analytics and subject_summaries as the pipeline leaves them for
\* three valid raw rows of two students
SampleRaw ==
    <<BaseRaw,
      [BaseRaw EXCEPT !.exam_id = "E2", !.exam_type = "real", !.score = "50",
                      !.exam_date = "2024-02-10"],
      [BaseRaw EXCEPT !.student_id = "S002", !.grade = "6", !.score = "90"]>>

SampleAnalytics ==
    WriteTable(AbsentSheet,
        AnalyzeStudents(WriteTable(AbsentSheet, RunValidation(RawSheet(SampleRaw)).df)).df)

SampleSummaryRows ==
    LET rows == Records(DeriveInsights(SampleAnalytics).df)
    IN  [i \in 1..Len(rows) |->
            SummariseRow(rows[i], "ollama", <<Good, Good, Good>>).record]

SampleSummaries == WriteTable(AbsentSheet, FrameOf(SUMMARY_COLUMNS, SampleSummaryRows))

\* the summaries when only the first insight row was narrated
PartSummaries ==
    WriteTable(AbsentSheet, FrameOf(SUMMARY_COLUMNS, SubSeq(SampleSummaryRows, 1, 1)))

HeaderOnly(cols) == [exists |-> TRUE, values |-> <<cols>>]

ConsolReplies ==
    {Returns(Text("", B_PROFILE, "")), Returns(Text("Sure: ", B_OTHERKEYS, " Done.")),
     Returns(Text("", B_OVERRIDE, "")), Returns(Text("", B_LIST, "")), Fails}

Rejected ==
    {Returns(Text("", B_PROSE, "")), Returns(Text("", B_BRACES, "")), Returns(EmptyText),
     Returns(Text("Sure: ", B_LIST, "")), Returns(Text("", B_NULL, "")),
     Returns(Text("", B_EMPTYOBJ, ""))}

\* what the backend does on the three attempts of one generate call
ConsolRuns ==
    {<<x, x, x>> : x \in ConsolReplies}
        \cup {<<Returns(Text("", B_PROSE, "")), x, x>> : x \in ConsolReplies}
        \cup {<<Returns(Text("", B_BRACES, "")), Returns(EmptyText), x>> : x \in ConsolReplies}
        \cup {<<x, x, x>> : x \in Rejected}

ConsolTables == {ANALYTICS, SUMMARIES, HISTORY, LATEST}

NoConsol == [student_id |-> "", status |-> "none", calls |-> 0, resps |-> <<>>]

InitConsol ==
    /\ sheet = AbsentSheet
    /\ \E a \in {AbsentSheet, HeaderOnly(ANALYTICS_COLUMNS), SampleAnalytics},
          n \in {AbsentSheet, HeaderOnly(SUMMARY_COLUMNS), PartSummaries, SampleSummaries},
          h \in {AbsentSheet, ClearedSheet} :
          store = [t \in ConsolTables |->
                      CASE t = ANALYTICS -> a
                        [] t = SUMMARIES -> n
                        [] OTHER -> h]
    /\ pc = "idle"
    /\ op = NoConsol
    /\ prev = store

\* one call of run_student_consolidation
Consolidate(student_id, llm_provider, resps) ==
    /\ pc = "idle"
    /\ Len(store[HISTORY].values) <= MaxHistory
    /\ \E r \in {run_student_consolidation(store, student_id, llm_provider, resps)} :
           /\ store' = r.store
           /\ op' = [student_id |-> student_id, status |-> r.status, calls |-> r.calls,
                     resps |-> resps]
    /\ prev' = store
    /\ pc' = "done"
    /\ UNCHANGED sheet

ConsolReturn ==
    /\ pc = "done"
    /\ pc' = "idle"
    /\ op' = NoConsol
    /\ prev' = store
    /\ UNCHANGED <<sheet, store>>

NextConsol ==
    \/ \E sid \in {"S001", "S002", "S003"}, p \in {"ollama", "llama"}, r \in ConsolRuns :
          Consolidate(sid, p, r)
    \/ ConsolReturn

SpecConsol == InitConsol /\ [][NextConsol]_vars

\* the data rows of a worksheet (everything under the header row)
DataRows(ws) == IF Len(ws.values) = 0 THEN <<>> ELSE Tail(ws.values)

\* C1: whatever consolidation runs have happened since the consolidated
\* tables were absent or empty, student_consolidated_latest holds at most one
\* row per student_id.
C1_LatestOneRowPerStudent == OneRowPerKey(store[LATEST], <<"student_id">>)

\* a successful run has replaced a student's row in a Latest table of two rows
C1_Witness ==
    /\ pc = "done" /\ op.status = "ok"
    /\ Len(DataRows(prev[LATEST])) = 2
    /\ Len(DataRows(store[LATEST])) = 2
    /\ store[LATEST] # prev[LATEST]

\* C3: every successful consolidation adds exactly one row to
\* student_consolidated_history and leaves the rows that were there unchanged.
C3_HistoryAppendOnly ==
    (pc = "done" /\ op.status = "ok") =>
        LET before == DataRows(prev[HISTORY])
            after == DataRows(store[HISTORY])
        IN  /\ Len(after) = Len(before) + 1
            /\ SubSeq(after, 1, Len(before)) = before

\* the table holds a data row of the student
HoldsStudent(ws, student_id) ==
    /\ Len(ws.values) >= 2
    /\ "student_id" \in Range(ws.values[1])
    /\ \E i \in 2..Len(ws.values) :
          ws.values[i][ColIndex(ws.values[1], "student_id")] = student_id

\* the cell of the last data row of a worksheet under a column
LastCell(ws, name) == ws.values[Len(ws.values)][ColIndex(ws.values[1], name)]

\* the grade text of the student's first analytics row
AnalyticsGrade(ws, student_id) ==
    IntText(Cell(ReadTable(ws), RowsOf(ReadTable(ws), student_id)[1], "grade"))

\* C29: the row run_student_consolidation(student_id) appends to History and
\* upserts into Latest carries the student_id it was called with and the
\* grade of that student's analytics, whatever keys the backend's object
\* has; no other student's Latest row is replaced or created.
C29_RowCarriesCallersIdentity ==
    (pc = "done" /\ op.status = "ok") =>
        /\ LastCell(store[HISTORY], "student_id") = op.student_id
        /\ LastCell(store[HISTORY], "grade") = AnalyticsGrade(store[ANALYTICS], op.student_id)
        /\ LastCell(store[LATEST], "student_id") = op.student_id
        /\ LastCell(store[LATEST], "grade") = AnalyticsGrade(store[ANALYTICS], op.student_id)
        /\ \A sid \in {"S001", "S002", "S003"} \ {op.student_id} :
              /\ HoldsStudent(store[LATEST], sid) <=> HoldsStudent(prev[LATEST], sid)
              /\ \A i \in 2..Len(prev[LATEST].values) :
                    prev[LATEST].values[i][1] = sid =>
                        \E j \in 2..Len(store[LATEST].values) :
                            \A c \in 1..Len(prev[LATEST].values[1]) :
                                store[LATEST].values[j][
                                    ColIndex(store[LATEST].values[1],
                                             prev[LATEST].values[1][c])]
                                    = prev[LATEST].values[i][c]

\* C7: a consolidation of a student without analytics rows or without
\* narrative rows (the table may be empty or absent) returns without error
\* and writes neither History nor Latest.
C7_SkipsWithoutError ==
    (/\ pc = "done"
     /\ \/ ~HoldsStudent(prev[ANALYTICS], op.student_id)
        \/ ~HoldsStudent(prev[SUMMARIES], op.student_id)) =>
        (op.status = "skipped" /\ store = prev)

(***************************************************************************)
(* pipeline_runner.py: one run of run_full_pipeline, stage by stage.  The  *)
(* narrative stage advances one insight row at a time and the              *)
(* consolidation stage one student at a time.                              *)
(***************************************************************************)
PipeTables == {RAW, VALIDATED, ANALYTICS, INSIGHTS, SUMMARIES, HISTORY, LATEST}

STAGES == <<"validation", "analytics", "insights", "narratives", "consolidation">>

\* the table a stage writes (the last stage writes History and Latest)
StageTable(stage) ==
    CASE stage = "validation" -> VALIDATED
      [] stage = "analytics" -> ANALYTICS
      [] stage = "insights" -> INSIGHTS
      [] stage = "narratives" -> SUMMARIES
      [] OTHER -> HISTORY

\* run_full_pipeline with every stage in a try block of its own: the next
\* stage follows whatever the status
NextPc_Continues(stage, status) ==
    CASE stage = "validation" -> "analytics"
      [] stage = "analytics" -> "insights"
      [] stage = "insights" -> "narratives"
      [] stage = "narratives" -> "consolidation"
      [] OTHER -> "completed"

\* where run_full_pipeline goes after a stage: on to the next one, or to the
\* except clause when the stage raised
NextPc(stage, status) ==
    IF status # "ok" THEN "failed"
    ELSE CASE stage = "validation" -> "analytics"
           [] stage = "analytics" -> "insights"
           [] stage = "insights" -> "narratives"
           [] stage = "narratives" -> "consolidation"
           [] OTHER -> "completed"

\* sorted(analytics_df["student_id"].unique())
StudentIds(df) ==
    LET ids == {Cell(df, df.rows[i], "student_id") : i \in 1..Len(df.rows)}
        rankOf(x) == 1 + Cardinality({o \in ids : StrRank[o] < StrRank[x]})
    IN  [p \in 1..Cardinality(ids) |-> CHOOSE x \in ids : rankOf(x) = p]

\* nothing returned by generate_summary (no call of it in the step)
NoGen == [status |-> "none", value |-> None, calls |-> 0]

NoStep ==
    [kind |-> "none", status |-> "none", calls |-> 0, resps |-> <<>>, student_id |-> "",
     gen |-> NoGen]

StageStep(status) ==
    [kind |-> "stage", status |-> status, calls |-> 0, resps |-> <<>>, student_id |-> "",
     gen |-> NoGen]

NoPipe ==
    [llm_provider |-> "", llm_row_limit |-> 0, import_provider |-> "",
     stage |-> "", log |-> <<>>,
     rows |-> <<>>, summaries |-> <<>>, students |-> <<>>, next |-> 0,
     last |-> NoStep, before |-> <<>>]

Begin(stage) == <<"begin", stage>>
Wrote(table) == <<"write", table>>
Raised(stage) == <<"raise", stage>>

\* the events a whole-stage step adds to the log
StageEvents(stage, status) ==
    IF status = "ok" THEN <<Begin(stage), Wrote(StageTable(stage))>>
    ELSE <<Begin(stage), Raised(stage)>>

\* the tables an earlier complete run over SampleRaw has left
Populated ==
    LET reply == Returns(Text("", B_PROFILE, ""))
        base == [t \in PipeTables |->
                    CASE t = RAW -> RawSheet(SampleRaw)
                      [] t = VALIDATED ->
                            WriteTable(AbsentSheet, RunValidation(RawSheet(SampleRaw)).df)
                      [] t = ANALYTICS -> SampleAnalytics
                      [] t = INSIGHTS ->
                            WriteTable(AbsentSheet, DeriveInsights(SampleAnalytics).df)
                      [] t = SUMMARIES -> SampleSummaries
                      [] OTHER -> AbsentSheet]
        one == run_student_consolidation(base, "S001", "ollama", <<reply, reply, reply>>).store
    IN  run_student_consolidation(one, "S002", "ollama", <<reply, reply, reply>>).store

Fresh == [t \in PipeTables |-> AbsentSheet]

PipeRawSheets ==
    {RawSheet(SampleRaw),
     RawSheet(<<BaseRaw>>),
     RawSheet(<<[BaseRaw EXCEPT !.grade = "13"]>>),
     RawSheet(<<BaseRaw, [BaseRaw EXCEPT !.student_id = "S002", !.grade = "12.5"]>>),
     RawSheet(SubSeq(SampleRaw, 1, 2)),
     RawSheet(<<BaseRaw, [BaseRaw EXCEPT !.grade = "6", !.exam_id = "E2"]>>),
     RawSheet(<<BaseRaw, [BaseRaw EXCEPT !.exam_id = "E2", !.exam_type = "real",
                                         !.score = "40", !.exam_date = "2024-02-10"]>>),
     AbsentSheet}

\* the llm_row_limit a run may be given
RowLimits == {1, 5}

InitPipe ==
    /\ sheet = AbsentSheet
    /\ \E raw \in PipeRawSheets, earlier \in {Fresh, Populated} :
          store = [earlier EXCEPT ![RAW] = raw]
    /\ pc = "idle"
    /\ op = NoPipe
    /\ prev = store

\* python pipeline_runner.py <llm_provider> <limit>, in a process whose
\* environment held LLM_PROVIDER = import_provider when the modules were
\* imported
Start(llm_provider, llm_row_limit, import_provider) ==
    /\ pc = "idle"
    /\ pc' = "validation"
    /\ op' = [NoPipe EXCEPT !.llm_provider = llm_provider,
                            !.llm_row_limit = llm_row_limit,
                            !.import_provider = import_provider,
                            !.before = store]
    /\ prev' = store
    /\ UNCHANGED <<sheet, store>>

\* a stage that is one call: what it leaves in its table and how it ends
WholeStage(stage, r) ==
    /\ pc = stage
    /\ store' = IF r.status = "ok"
                THEN [store EXCEPT ![StageTable(stage)] = WriteTable(@, r.df)]
                ELSE store
    /\ op' = [op EXCEPT !.stage = stage,
                        !.log = @ \o StageEvents(stage, r.status),
                        !.last = StageStep(r.status),
                        !.before = store]
    /\ pc' = NextPc(stage, r.status)
    /\ UNCHANGED <<sheet, prev>>

ValidationStage == WholeStage("validation", RunValidation(store[RAW]))

AnalyticsStage == WholeStage("analytics", AnalyzeStudents(store[VALIDATED]))

InsightsStage == WholeStage("insights", DeriveInsights(store[ANALYTICS]))

\* run_llm up to its loop: the insight rows it will narrate
NarrativesBegin ==
    /\ pc = "narratives"
    /\ LET df == Head20(ReadTable(store[INSIGHTS]))
           status == IF ReadRaises(store[INSIGHTS]) THEN "WorksheetNotFound"
                     ELSE IF DFEmpty(df) THEN "RuntimeError" ELSE "ok"
       IN  /\ op' = [op EXCEPT !.stage = "narratives",
                               !.log = @ \o (IF status = "ok" THEN <<Begin("narratives")>>
                                             ELSE <<Begin("narratives"), Raised("narratives")>>),
                               !.rows = IF status = "ok" THEN Records(df) ELSE <<>>,
                               !.last = StageStep(status),
                               !.before = store]
           /\ pc' = IF status = "ok" THEN "narrating" ELSE NextPc("narratives", status)
    /\ UNCHANGED <<sheet, store, prev>>

\* one turn of run_llm's loop; the turn of the last row goes on to
\* write_table.  gen is what generate_summary did in this turn.
NarrateRow(resps) ==
    /\ pc = "narrating"
    /\ \E r \in {SummariseRow(Head(op.rows), op.import_provider, resps)},
          g \in {generate_summary(op.import_provider, resps)},
          last \in {Len(op.rows) = 1} :
       LET all == Append(op.summaries, r.record)
           step == [kind |-> "row", status |-> r.status, calls |-> r.calls,
                    resps |-> resps, student_id |-> Head(op.rows)["student_id"],
                    gen |-> g]
       IN  IF r.status # "ok"
           THEN /\ op' = [op EXCEPT !.log = Append(@, Raised("narratives")),
                                    !.last = step, !.before = store]
                /\ pc' = NextPc("narratives", r.status)
                /\ store' = store
           ELSE /\ op' = [op EXCEPT !.rows = Tail(@),
                                    !.summaries = all,
                                    !.log = IF last THEN Append(@, Wrote(SUMMARIES)) ELSE @,
                                    !.last = step, !.before = store]
                /\ pc' = IF last THEN NextPc("narratives", "ok") ELSE "narrating"
                /\ store' = IF last
                            THEN [store EXCEPT ![SUMMARIES] =
                                     WriteTable(@, FrameOf(SUMMARY_COLUMNS, all))]
                            ELSE store
    /\ UNCHANGED <<sheet, prev>>

\* phase 4 up to its loop: the students to consolidate
ConsolidationBegin ==
    /\ pc = "consolidation"
    /\ LET df == ReadTable(store[ANALYTICS])
           status == IF ReadRaises(store[ANALYTICS]) THEN "WorksheetNotFound"
                     ELSE IF DFEmpty(df) THEN "RuntimeError" ELSE "ok"
       IN  /\ op' = [op EXCEPT !.stage = "consolidation",
                               !.log = @ \o (IF status = "ok" THEN <<Begin("consolidation")>>
                                             ELSE <<Begin("consolidation"),
                                                    Raised("consolidation")>>),
                               !.students = IF status = "ok" THEN StudentIds(df) ELSE <<>>,
                               !.next = 1,
                               !.last = StageStep(status),
                               !.before = store]
           /\ pc' = IF status = "ok" THEN "consolidating"
                    ELSE NextPc("consolidation", status)
    /\ UNCHANGED <<sheet, store, prev>>

\* one turn of phase 4's loop: run_student_consolidation(sid), whose
\* exception nothing catches before the except clause of the run
ConsolidateStudent(resps) ==
    /\ pc = "consolidating"
    /\ \E sid \in {op.students[op.next]} :
       \E r \in {run_student_consolidation(store, sid, op.llm_provider, resps)} :
       \E returned \in {r.status \in {"ok", "skipped"}}, last \in {op.next = Len(op.students)} :
           /\ store' = r.store
           /\ op' = [op EXCEPT !.next = IF returned THEN @ + 1 ELSE @,
                               !.log = IF ~returned THEN Append(@, Raised("consolidation"))
                                       ELSE IF r.status = "ok" THEN Append(@, Wrote(HISTORY))
                                       ELSE @,
                               !.last = [kind |-> "student", status |-> r.status,
                                         calls |-> r.calls, resps |-> resps,
                                         student_id |-> sid, gen |-> NoGen],
                               !.before = store]
           /\ pc' = IF ~returned THEN NextPc("consolidation", r.status)
                    ELSE IF last THEN NextPc("consolidation", "ok")
                    ELSE "consolidating"
    /\ UNCHANGED <<sheet, prev>>

NarrativeReplies ==
    {Good, Returns(Text("Sure: ", B_NARRATIVE, " Done.")), Returns(Text("", B_PARTIAL, "")),
     Returns(Text("", B_LIST, "")), Fails}

NarrativeRuns ==
    {<<x, x, x>> : x \in NarrativeReplies}
        \cup {<<Returns(Text("", B_PROSE, "")), x, x>> : x \in NarrativeReplies}
        \cup {<<Returns(Text("", B_BRACES, "")), Returns(EmptyText), x>> : x \in NarrativeReplies}
        \cup {<<x, x, x>> : x \in Rejected}

NextPipe ==
    \/ \E p \in {"openai", "llama"}, n \in RowLimits, i \in {"ollama", "llama"} :
          Start(p, n, i)
    \/ ValidationStage
    \/ AnalyticsStage
    \/ InsightsStage
    \/ NarrativesBegin
    \/ \E r \in NarrativeRuns : NarrateRow(r)
    \/ ConsolidationBegin
    \/ \E r \in ConsolRuns : ConsolidateStudent(r)

SpecPipe == InitPipe /\ [][NextPipe]_vars

\* the analytics row a and the validated row v have one (student_id, grade,
\* subject) key: the analytics grade is the integer of the validated one
SameGroup(adf, a, vdf, v) ==
    /\ Cell(adf, a, "student_id") = Cell(vdf, v, "student_id")
    /\ Cell(adf, a, "grade") * 100 = Cell(vdf, v, "grade")
    /\ Cell(adf, a, "subject") = Cell(vdf, v, "subject")

\* C16: after a successful analyze_students run the analytics table holds
\* exactly one record for each (student_id, grade, subject) group of the
\* validated table, no record for another key (nothing of earlier runs), and
\* each record's attempt_count is the number of validated rows of its group.
C16_OneAnalyticsRecordPerGroup ==
    (pc = "insights" /\ op.stage = "analytics") =>
        LET vdf == ReadTable(store[VALIDATED])
            adf == ReadTable(store[ANALYTICS])
        IN  /\ \A i \in 1..Len(vdf.rows) :
                  Cardinality({j \in 1..Len(adf.rows) :
                      SameGroup(adf, adf.rows[j], vdf, vdf.rows[i])}) = 1
            /\ \A j \in 1..Len(adf.rows) :
                  /\ Cell(adf, adf.rows[j], "attempt_count") >= 1
                  /\ Cell(adf, adf.rows[j], "attempt_count") =
                        Cardinality({i \in 1..Len(vdf.rows) :
                            SameGroup(adf, adf.rows[j], vdf, vdf.rows[i])})

\* a run over two rows of one group, on tables an earlier run had filled
\* with the records of two groups
C16_Witness ==
    /\ pc = "insights" /\ op.stage = "analytics"
    /\ Len(ReadTable(op.before[ANALYTICS]).rows) = 2
    /\ Len(ReadTable(store[ANALYTICS]).rows) = 1
    /\ ReadTable(store[ANALYTICS]).rows[1][4] = 2

\* C17: the insights table derive_insights writes holds at most one record
\* per (student_id, subject), for any validated dataset, one with rows of a
\* student for one subject under two grades included.
C17_OneInsightPerStudentSubject ==
    (pc = "narratives" /\ op.stage = "insights") =>
        LET df == ReadTable(store[INSIGHTS])
        IN  \A i, j \in 1..Len(df.rows) :
                (Cell(df, df.rows[i], "student_id") = Cell(df, df.rows[j], "student_id")
                    /\ Cell(df, df.rows[i], "subject") = Cell(df, df.rows[j], "subject"))
                    => i = j

\* C5: with a known backend, whatever the backend does on each attempt
\* (parseable text, unparseable text, a failure), the narration of a row ends
\* with a narrative and the run goes on: run_llm is not stopped by one row.
C5_NarrativeNeverRaises ==
    (op.last.kind = "row" /\ op.import_provider \in KNOWN_PROVIDERS) =>
        (op.last.status = "ok" /\ pc # "failed")

\* text that is not JSON, on every one of the three attempts
AllUnparseable(resps) ==
    \A i \in 1..3 :
        /\ resps[i].kind = "text"
        /\ resps[i].text.body \in {B_PROSE, B_BRACES, ""}

LastOf(seq) == seq[Len(seq)]

\* C6: after 3 unparseable replies in one generate call, the per-subject path
\* returns the canned narrative with confidence_note "low", and the
\* consolidation path raises after the 3rd attempt and writes neither History
\* nor Latest.
C6_ThreeUnparseableReplies ==
    /\ (/\ op.last.kind = "row"
        /\ op.import_provider \in KNOWN_PROVIDERS
        /\ AllUnparseable(op.last.resps)) =>
            /\ op.last.status = "ok"
            /\ op.last.calls = 3
            /\ LastOf(op.summaries)["performance_summary"]
                  = DictGet(FALLBACK.items, "performance_summary").text
            /\ LastOf(op.summaries)["improvement_plan"]
                  = DictGet(FALLBACK.items, "improvement_plan").text
            /\ LastOf(op.summaries)["motivation_note"]
                  = DictGet(FALLBACK.items, "motivation_note").text
            /\ LastOf(op.summaries)["confidence_note"] = "low"
    /\ (/\ op.last.kind = "student"
        /\ op.llm_provider \in KNOWN_PROVIDERS
        /\ HoldsStudent(op.before[ANALYTICS], op.last.student_id)
        /\ HoldsStudent(op.before[SUMMARIES], op.last.student_id)
        /\ AllUnparseable(op.last.resps)) =>
            /\ op.last.status = "RuntimeError"
            /\ op.last.calls = 3
            /\ store[HISTORY] = op.before[HISTORY]
            /\ store[LATEST] = op.before[LATEST]

\* a consolidation has raised after 3 unparseable replies, in a run whose
\* narrative stage wrote a canned narrative after 3 unparseable replies
C6_Witness ==
    /\ pc = "failed"
    /\ op.last.kind = "student" /\ op.last.status = "RuntimeError"
    /\ AllUnparseable(op.last.resps)
    /\ op.import_provider \in KNOWN_PROVIDERS
    /\ \E i \in 1..Len(op.summaries) : op.summaries[i]["confidence_note"] = "low"
    /\ \E i \in 2..Len(store[SUMMARIES].values) :
          store[SUMMARIES].values[i][ColIndex(SUMMARY_COLUMNS, "confidence_note")] = "low"

\* C8: when the consolidation of a student raises, the run goes on with the
\* remaining students: the run is not aborted, and it completes only after
\* every student had its turn.
C8_FailedStudentIsSkipped ==
    op.last.kind = "student" =>
        /\ pc # "failed"
        /\ pc = "completed" => op.next > Len(op.students)

StageNo(stage) == CHOOSE k \in 1..Len(STAGES) : STAGES[k] = stage

\* the tables the stages after stage number k write
LaterTables(k) ==
    {StageTable(STAGES[j]) : j \in (k + 1)..Len(STAGES)}
        \cup (IF k < Len(STAGES) THEN {LATEST} ELSE {})

\* C10: the stages of a run begin in the order validation, analytics,
\* insights, narratives, consolidation, each one after the previous stage's
\* table was written; after a stage has raised no stage begins and nothing is
\* written, and the tables of the later stages are as they were when the run
\* started.
C10_StagesInOrder ==
    /\ \A i \in 1..Len(op.log) :
          op.log[i][1] = "begin" =>
              /\ StageNo(op.log[i][2])
                    = 1 + Cardinality({j \in 1..(i - 1) : op.log[j][1] = "begin"})
              /\ StageNo(op.log[i][2]) > 1 =>
                    \E j \in 1..(i - 1) :
                        op.log[j] = Wrote(StageTable(STAGES[StageNo(op.log[i][2]) - 1]))
    /\ \A i \in 1..Len(op.log) : op.log[i][1] = "raise" => i = Len(op.log)
    /\ \A i \in 1..Len(op.log) :
          op.log[i][1] = "raise" =>
              /\ pc = "failed"
              /\ \A t \in LaterTables(StageNo(op.log[i][2])) : store[t] = prev[t]

\* the analytics stage has raised after validation wrote its table, in a
\* spreadsheet that holds the later tables of an earlier run
C10_Witness ==
    /\ pc = "failed"
    /\ op.log = <<Begin("validation"), Wrote(VALIDATED), Begin("analytics"),
                  Raised("analytics")>>
    /\ prev[INSIGHTS].exists
    /\ store[VALIDATED] # prev[VALIDATED]

\* C22: with a backend name that is not a known one, the per-subject
\* generator and the consolidation generator both fail with the
\* unsupported-backend error, no backend having been invoked (so no retry
\* and no delay), and the per-subject path writes no canned narrative.
C22_UnknownBackendFailsFast ==
    /\ (op.last.kind = "row" /\ op.import_provider \notin KNOWN_PROVIDERS) =>
            /\ op.last.status = "ValueError"
            /\ op.last.calls = 0
            /\ op.summaries = <<>>
            /\ store[SUMMARIES] = op.before[SUMMARIES]
            /\ pc = "failed"
    /\ (/\ op.last.kind = "student"
        /\ op.llm_provider \notin KNOWN_PROVIDERS
        /\ HoldsStudent(op.before[ANALYTICS], op.last.student_id)
        /\ HoldsStudent(op.before[SUMMARIES], op.last.student_id)) =>
            /\ op.last.status = "ValueError"
            /\ op.last.calls = 0
            /\ store[HISTORY] = op.before[HISTORY]
            /\ store[LATEST] = op.before[LATEST]

\* the narrative stage has failed on its first row under an unknown backend
\* name although every reply on offer was a good one
C22_Witness ==
    /\ pc = "failed"
    /\ op.last.kind = "row" /\ op.import_provider \notin KNOWN_PROVIDERS
    /\ op.last.status = "ValueError"
    /\ op.last.resps = <<Good, Good, Good>>

\* the rows of a frame that belong to student S001 and subject Math
MathRowsOfS001(df) ==
    {i \in 1..Len(df.rows) :
        Cell(df, df.rows[i], "student_id") = "S001"
            /\ Cell(df, df.rows[i], "subject") = "Math"}

\* the validated table holds exactly two attempts of S001 in Math: 55 in a
\* mock exam, then 50 in a real exam at a later date
TwoAttempts55Then50(vdf) ==
    /\ Cardinality(MathRowsOfS001(vdf)) = 2
    /\ \E i, j \in MathRowsOfS001(vdf) :
          /\ Cell(vdf, vdf.rows[i], "score") = 5500
          /\ Cell(vdf, vdf.rows[i], "exam_type") = "mock"
          /\ Cell(vdf, vdf.rows[j], "score") = 5000
          /\ Cell(vdf, vdf.rows[j], "exam_type") = "real"
          /\ ToDatetime(Cell(vdf, vdf.rows[i], "exam_date"))
                < ToDatetime(Cell(vdf, vdf.rows[j], "exam_date"))

\* C23: end to end, a student/subject group with exactly two attempts, 55
\* (mock, earlier) and 50 (real, later), gets average_score 52.5, trend
\* stable, risk_flag medium, performance_band low, mock_vs_real_gap -5.0,
\* and the secondary issue of its insight is "None observed".
C23_EndToEnd55Then50 ==
    (/\ pc = "narratives" /\ op.stage = "insights"
     /\ TwoAttempts55Then50(ReadTable(store[VALIDATED]))) =>
        LET adf == ReadTable(store[ANALYTICS])
            idf == ReadTable(store[INSIGHTS])
        IN  /\ Cardinality(MathRowsOfS001(adf)) = 1
            /\ \A a \in MathRowsOfS001(adf) :
                  /\ Cell(adf, adf.rows[a], "attempt_count") = 2
                  /\ Cell(adf, adf.rows[a], "average_score") = 5250
                  /\ Cell(adf, adf.rows[a], "trend") = "stable"
                  /\ Cell(adf, adf.rows[a], "risk_flag") = "medium"
                  /\ Cell(adf, adf.rows[a], "performance_band") = "low"
                  /\ Cell(adf, adf.rows[a], "mock_vs_real_gap") = <<-500>>
            /\ Cardinality(MathRowsOfS001(idf)) = 1
            /\ \A i \in MathRowsOfS001(idf) :
                  Cell(idf, idf.rows[i], "secondary_issue") = "None observed"

\* the insights stage has written the insight of such a group
C23_Witness ==
    /\ pc = "narratives" /\ op.stage = "insights"
    /\ TwoAttempts55Then50(ReadTable(store[VALIDATED]))
    /\ \E i \in MathRowsOfS001(ReadTable(store[INSIGHTS])) :
          ReadTable(store[INSIGHTS]).rows[i][ColIndex(INSIGHT_COLUMNS, "secondary_issue")]
              = "None observed"

\* a generate call was made: a narrated row, or a student that was not
\* skipped, under a known backend name
GenerateCallMade ==
    \/ op.last.kind = "row" /\ op.import_provider \in KNOWN_PROVIDERS
    \/ /\ op.last.kind = "student" /\ op.llm_provider \in KNOWN_PROVIDERS
       /\ HoldsStudent(op.before[ANALYTICS], op.last.student_id)
       /\ HoldsStudent(op.before[SUMMARIES], op.last.student_id)

\* the reply is text that json.loads accepts as it is
TextParses(resp) ==
    /\ resp.kind = "text"
    /\ resp.text.lead = "" /\ resp.text.trail = ""
    /\ resp.text.body # "" /\ JsonLoads[resp.text.body].ok

\* the reply is text that parses to a value Python treats as true
ParsesToTrue(resp) == resp.kind = "text" /\ Truthy(safe_json_parse(resp.text))

\* C24 as stated: a generate call with a known backend invokes it between 1
\* and 3 times and not again after the first attempt whose text parses.
C24_NoCallAfterFirstParse ==
    GenerateCallMade =>
        /\ op.last.calls \in 1..3
        /\ \A i \in 1..(op.last.calls - 1) : ~TextParses(op.last.resps[i])

\* C24, amended: a generate call with a known backend invokes it between 1
\* and 3 times; every attempt before the last one made returned text that
\* did not parse to a true value (unparseable text, or null, {} and the
\* like), and fewer than 3 attempts are made only when the last one raised
\* or parsed to a true value; the call ends with a status.
C24_AtMostThreeAttempts ==
    GenerateCallMade =>
        /\ op.last.calls \in 1..3
        /\ \A i \in 1..(op.last.calls - 1) :
              op.last.resps[i].kind = "text" /\ ~ParsesToTrue(op.last.resps[i])
        /\ op.last.calls < 3 =>
              \/ op.last.resps[op.last.calls].kind = "raise"
              \/ ParsesToTrue(op.last.resps[op.last.calls])
        /\ op.last.status # "none"

\* a per-subject call that stopped at its second attempt, the first reply
\* having been prose
C24_Witness ==
    /\ op.last.kind = "row" /\ op.import_provider \in KNOWN_PROVIDERS
    /\ op.last.resps = <<Returns(Text("", B_PROSE, "")), Good, Good>>
    /\ op.last.calls = 2
    /\ op.last.status = "ok"

\* C25: whatever text the backend returns, the value generate_summary returns
\* is an object with the four keys performance_summary, improvement_plan,
\* motivation_note and confidence_note; text that parses as JSON but is not
\* such an object is not returned as a narrative.
C25_ReturnsFourKeyObject ==
    (op.last.kind = "row" /\ op.last.gen.status = "ok") =>
        /\ op.last.gen.value.type = "dict"
        /\ \A k \in {"performance_summary", "improvement_plan", "motivation_note",
                     "confidence_note"} : HasKey(op.last.gen.value.items, k)

\* C27: the backend the narrative phase of a run invokes, and records as
\* llm_provider in each narrative row, is the provider name given to
\* run_full_pipeline, the one the consolidation phase of the run uses.
C27_NarrativeUsesGivenProvider ==
    (op.last.kind = "row" /\ op.last.status = "ok") =>
        LastOf(op.summaries)["llm_provider"] = op.llm_provider

\* C28: the number of insight rows the narrative phase of a run narrates is
\* min(number of insight rows, the llm_row_limit given to run_full_pipeline).
C28_RowLimitBoundsNarratives ==
    (pc = "consolidation" /\ op.stage = "narratives") =>
        Len(ReadTable(store[SUMMARIES]).rows)
            = (IF Len(ReadTable(store[INSIGHTS]).rows) < op.llm_row_limit
               THEN Len(ReadTable(store[INSIGHTS]).rows)
               ELSE op.llm_row_limit)

\* the cell of an insight row under a column of INSIGHT_COLUMNS
InsightCell(row, name) == row[ColIndex(INSIGHT_COLUMNS, name)]

\* C30: after analyze_students and derive_insights have run one after the
\* other, every insight record has urgency_level equal to academic_risk_level,
\* and teacher_intervention_needed is "yes" exactly when academic_risk_level
\* is "high".
C30_UrgencyEqualsRisk ==
    (pc = "narratives" /\ op.stage = "insights") =>
        \A i \in 1..Len(ReadTable(store[INSIGHTS]).rows) :
            LET row == ReadTable(store[INSIGHTS]).rows[i]
            IN  /\ InsightCell(row, "urgency_level") = InsightCell(row, "academic_risk_level")
                /\ InsightCell(row, "teacher_intervention_needed") = "yes"
                      <=> InsightCell(row, "academic_risk_level") = "high"

\* the insights of a run hold a record of high risk and urgency that asks
\* for teacher intervention: attempts of 55 then 40
C30_Witness ==
    /\ pc = "narratives" /\ op.stage = "insights"
    /\ \E i \in 1..Len(ReadTable(store[INSIGHTS]).rows) :
          LET row == ReadTable(store[INSIGHTS]).rows[i]
          IN  /\ InsightCell(row, "academic_risk_level") = "high"
              /\ InsightCell(row, "urgency_level") = "high"
              /\ InsightCell(row, "teacher_intervention_needed") = "yes"

====
